---- MODULE Spec2Model ----
(***************************************************************************)
(* Model of the aivory_monitor agent runtime:                              *)
(*   - transport/connection.py  BackendConnection (worker, _send, queue)   *)
(*   - tracer/trace_manager.py  TraceManager (breakpoint registry, hook)   *)
(* Threads are interleaved at the granularity of the shared-state accesses *)
(* of the source: one step per flag test, queue operation or channel write.*)
(***************************************************************************)
EXTENDS Integers, Sequences, FiniteSets, TLC

(* ------------------------------ bounds -------------------------------- *)
\* Spec: frames submitted through _send (by all threads together), channel
\* handshakes that succeed, channel handshakes that fail
MaxFrames == 2
MaxConns == 2
MaxFails == 1
\* SpecAuth: the same, for the authentication-failure scenario
MaxFramesAuth == 1
MaxConnsAuth == 1
MaxFailsAuth == 1
\* SpecBackoff: no frames, many failing handshakes
MaxConnsBackoff == 1
MaxFailsBackoff == 11
\* SpecQueue: frames submitted beyond the preloaded ones, handshakes
MaxFramesQueue == 2
MaxConnsQueue == 1
\* SpecStalled: frames submitted beyond the preloaded ones
MaxFramesStalled == 2
\* SpecTrace: set_breakpoint / remove_breakpoint commands and line events
MaxCommands == 2
MaxLineEvents == 3

(* ------------------------- program constants -------------------------- *)
\* queue.Queue(maxsize=100)
maxsize == 100
\* self._max_reconnect_attempts = 10
InitialMaxReconnectAttempts == 10
\* self._reconnect_delay = 1.0 (seconds)
reconnect_delay == 1
\* min(..., 60.0)
MaxDelay == 60
\* min(max(max_hits, 1), 50)
MinHits == 1
MaxHits == 50

(* ------------------------------ threads ------------------------------- *)
App1 == <<"app", 1>>
App2 == <<"app", 2>>
AppThreads == {App1, App2}
WorkerId == <<"worker", 0>>
Heartbeat(c) == <<"hb", c>>

IsApp(t) == t[1] = "app"
IsHb(t) == t[1] = "hb"

VARIABLES
    \* ---- BackendConnection
    connected,              \* self._connected
    authenticated,          \* self._authenticated
    shutdown,               \* self._shutdown (threading.Event)
    reconnect_attempts,     \* self._reconnect_attempts
    max_reconnect_attempts, \* self._max_reconnect_attempts
    message_queue,          \* self._message_queue, oldest first
    ws,                     \* self._ws: id of the channel object, 0 = None
    open,                   \* ids of the channels that are open
    nconn,                  \* channels opened so far
    wpc,                    \* position of the transport worker
    wheld,                  \* frame the worker took out of the queue
    delay,                  \* delay computed at line 151 (seconds), 0 before
    threads,                \* the application and heartbeat threads that
                            \* exist: pc, json_msg and `queued` of the _send
                            \* call in progress, frames submitted so far,
                            \* and the branch of _send the call took
    dpc,                    \* position of the thread calling disconnect()
    errlog,                 \* code of the last backend error printed (l.260)
    \* ---- environment budgets
    okBudget,               \* handshakes that may still succeed
    failBudget,             \* handshakes that may still fail
    frameBudget,            \* frames that may still be submitted
    \* ---- observation of the channel
    wire,                   \* frames the channels accepted: [c, f], in order
                            \* (kept only while logWire)
    logWire,                \* whether `wire` is kept
    hi,                     \* per application thread, the highest frame
                            \* number a channel has accepted
    misordered,             \* a channel accepted a frame of an application
                            \* thread after a later frame of that thread
    rxCount,                \* application frames the channels accepted
    era,                    \* transitions to AUTHENTICATED so far
    backlog,                \* frames that were queued at the latest
                            \* transition to AUTHENTICATED and that no
                            \* channel has accepted since (kept only while
                            \* logWire)
    overlap,                \* an application _send call was in progress
                            \* or began after a handshake had succeeded
    lateSubs,               \* frames submitted after an authentication
                            \* error had been handled
    failStreak,             \* consecutive failed handshakes
    \* ---- TraceManager
    enabled,                \* self._enabled
    alive,                  \* the application threads that are running
    hooked,                 \* the threads whose trace function
                            \* (sys.settrace) is self._trace_callback
    heap,                   \* the Breakpoint objects created so far
    breakpoints,            \* self._breakpoints: backend_id -> object
    breakpoints_by_file,    \* self._breakpoints_by_file: path -> objects
    hits,                   \* breakpoint_hit frames handed to the transport
    sinceInstall,           \* per backend_id, breakpoint_hit frames emitted
                            \* since the id was last installed or removed
    cmdBudget,              \* breakpoint commands still to come
    lineBudget,             \* line events still to come
    \* ---- AIVoryAgent, AgentConfig, ExceptionHandler and the process hooks
    started,                \* AIVoryAgent._started
    launched,               \* worker threads started by connect() so far
    enable_breakpoints,     \* config.enable_breakpoints
    sampling_rate,          \* config.sampling_rate, in hundredths
    installed,              \* ExceptionHandler._installed
    original_excepthook,    \* ExceptionHandler._original_excepthook
    original_unraisablehook,\* ExceptionHandler._original_unraisablehook
    sys_excepthook,         \* sys.excepthook
    sys_unraisablehook,     \* sys.unraisablehook
    boot_excepthook,        \* sys.excepthook when the handler was built
    boot_unraisablehook,    \* sys.unraisablehook when the handler was built
    trail,                  \* what the latest hook or capture call did, in
                            \* order
    handed,                 \* captures handed to the transport so far
    escapes,                \* failures that reached the caller so far
    lastCall,               \* the latest call of the agent's interface
    callBudget,             \* calls and failure events still to come
    \* ---- ExceptionCaptureBuilder and TraceManager: one capture
    max_capture_depth,      \* config.max_capture_depth
    max_string_length,      \* config.max_string_length
    max_collection_size,    \* config.max_collection_size
    exception,              \* the failure: type name, message, traceback
    f_locals,               \* frame.f_locals of the innermost frame
    capture,                \* what the latest capture produced
    \* ---- the module facade (aivory_monitor.init)
    environ,                \* os.environ and the arguments of init()
    initialized,            \* _agent is not None
    init_result,            \* how the latest init() call ended
    \* ---- the trace function of the main thread and one callback call
    original_trace,         \* TraceManager._original_trace
    sys_trace,              \* sys.gettrace() on the main thread
    boot_trace,             \* sys.gettrace() on the main thread when the
                            \* trace manager was built
    cb,                     \* the _trace_callback call in progress on the
                            \* main thread: its position in the loop over
                            \* self._breakpoints_by_file.items()
    cb_result,              \* how the latest _trace_callback call ended
    spc                     \* position of the thread inside _cleanup

flagvars == <<connected, authenticated, shutdown>>
workervars == <<reconnect_attempts, max_reconnect_attempts, nconn, okBudget,
                failBudget, wpc, wheld, delay, errlog, failStreak>>
sendervars == <<threads, frameBudget>>
obsvars == <<wire, hi, misordered, rxCount, backlog>>
ghostvars == <<logWire, era, overlap, lateSubs>>
transportvars == <<flagvars, workervars, sendervars, obsvars, ghostvars,
                   message_queue, ws, open, dpc>>
tracevars == <<enabled, alive, hooked, heap, breakpoints,
               breakpoints_by_file, hits, sinceInstall, cmdBudget, lineBudget>>
hookvars == <<installed, original_excepthook, original_unraisablehook,
              sys_excepthook, sys_unraisablehook>>
agentvars == <<started, launched, enable_breakpoints, sampling_rate, hookvars,
               boot_excepthook, boot_unraisablehook, trail, handed, escapes,
               lastCall, callBudget>>
capturevars == <<max_capture_depth, max_string_length, max_collection_size,
                 exception, f_locals, capture>>
facadevars == <<environ, initialized, init_result>>
hooktracevars == <<original_trace, sys_trace>>
racevars == <<boot_trace, cb, cb_result, spc>>
auxvars == <<capturevars, facadevars, hooktracevars, racevars>>
vars == <<transportvars, tracevars, agentvars, auxvars>>

(* ------------------------------ frames -------------------------------- *)
\* a frame: the submitting thread, its number among that thread's frames,
\* and the number of AUTHENTICATED transitions that preceded its submission
Frame(t, k, e) == [src |-> t, n |-> k, era |-> e]
NoFrame == Frame(WorkerId, 0, 0)
RegisterFrame(c) == Frame(WorkerId, c, 0)
TypeOf(f) == IF f.src = WorkerId THEN "register"
             ELSE IF IsHb(f.src) THEN "heartbeat" ELSE "exception"

Range(q) == {q[i] : i \in 1..Len(q)}
Last(q) == q[Len(q)]

(* ---------------------- queue.Queue primitives ------------------------ *)
\* queue.Queue.put_nowait raises queue.Full when qsize() >= maxsize
QueueFullOffByOne(q) == Len(q) > maxsize
QueueFull(q) == Len(q) >= maxsize
\* queue.Queue.get_nowait raises queue.Empty on an empty queue
QueueEmpty(q) == Len(q) = 0

\* ws.send(frame) on channel c succeeds iff c is an open channel
SendSucceeds(c) == c \in open

\* is_connected(): self._connected and self._authenticated
is_connected == connected /\ authenticated

\* channel c accepts frame f
Accept(c, f) ==
    /\ wire' = IF logWire THEN Append(wire, [c |-> c, f |-> f]) ELSE wire
    /\ hi' = IF IsApp(f.src) /\ f.n > hi[f.src]
               THEN [hi EXCEPT ![f.src] = f.n] ELSE hi
    /\ misordered' = (misordered \/ (IsApp(f.src) /\ f.n < hi[f.src]))
    /\ rxCount' = IF IsApp(f.src) THEN rxCount + 1 ELSE rxCount
    /\ backlog' = IF logWire THEN backlog \ {f} ELSE backlog

Home(t) == IF IsApp(t) THEN "idle" ELSE "hb_loop"

NewThread(pc) == [pc |-> pc, msg |-> NoFrame, held |-> NoFrame, nsub |-> 0,
                  path |-> "none"]

\* line 261: code in ('auth_error', 'invalid_api_key')
IsAuthFailureAnyCode(code) == TRUE
IsAuthFailureOneCode(code) == code = "auth_error"
IsAuthFailure(code) == code \in {"auth_error", "invalid_api_key"}

\* the handler of an authentication error has returned
AuthErrorHandled ==
    /\ errlog \in {"auth_error", "invalid_api_key"}
    /\ wpc \notin {"err_disconnect", "err_close"}

(* ===================== BackendConnection._send ======================== *)
\* lines 88-97: build json_msg, test `self._connected and self._authenticated`
SendBegin(t) ==
    /\ threads[t].pc = IF IsApp(t) THEN "idle" ELSE "hb_send"
    /\ IsApp(t) => frameBudget > 0
    /\ LET f == Frame(t, threads[t].nsub + 1, era) IN
        /\ threads' = [threads EXCEPT ![t] =
              [@ EXCEPT !.msg = f, !.nsub = @ + 1,
                        !.pc = IF is_connected THEN "direct" ELSE "put",
                        !.path = IF is_connected THEN "direct" ELSE "offline"]]
        /\ frameBudget' = IF IsApp(t) THEN frameBudget - 1 ELSE frameBudget
        /\ lateSubs' = IF AuthErrorHandled THEN lateSubs \cup {f} ELSE lateSubs
        /\ overlap' = (overlap \/ (IsApp(t) /\ nconn > 0))
    /\ UNCHANGED <<flagvars, workervars, obsvars, logWire, era, message_queue,
                   ws, open, dpc, tracevars, agentvars, auxvars>>

\* lines 98-99 and 107: self._ws.send(json_msg)
SendDirect(t) ==
    /\ threads[t].pc = "direct"
    /\ IF SendSucceeds(ws)
         THEN /\ Accept(ws, threads[t].msg)
              /\ threads' = [threads EXCEPT ![t].pc = "flush"]
         ELSE /\ UNCHANGED obsvars
              /\ threads' = [threads EXCEPT ![t].pc = "put",
                                            ![t].path = "direct_failed"]
    /\ UNCHANGED <<flagvars, workervars, ghostvars, frameBudget,
                   message_queue, ws, open, dpc, tracevars,
                   agentvars, auxvars>>

\* lines 101-103 and 105-106: queued = self._message_queue.get_nowait()
SendFlushGet(t) ==
    /\ threads[t].pc = "flush"
    /\ IF QueueEmpty(message_queue)
         THEN /\ threads' = [threads EXCEPT ![t].pc = Home(t),
                                            ![t].path = "none"]
              /\ message_queue' = message_queue
         ELSE /\ threads' = [threads EXCEPT ![t].pc = "flush_send",
                                            ![t].held = Head(message_queue)]
              /\ message_queue' = Tail(message_queue)
    /\ UNCHANGED <<flagvars, workervars, obsvars, ghostvars, frameBudget, ws,
                   open, dpc, tracevars, agentvars, auxvars>>

\* lines 104 and 107: self._ws.send(queued)
SendFlushSend(t) ==
    /\ threads[t].pc = "flush_send"
    /\ IF SendSucceeds(ws)
         THEN /\ Accept(ws, threads[t].held)
              /\ threads' = [threads EXCEPT ![t].pc = "flush",
                                            ![t].held = NoFrame]
         ELSE /\ UNCHANGED obsvars
              /\ threads' = [threads EXCEPT ![t].pc = "put",
                                            ![t].held = NoFrame,
                                            ![t].path = "flush_failed"]
    /\ UNCHANGED <<flagvars, workervars, ghostvars, frameBudget,
                   message_queue, ws, open, dpc, tracevars,
                   agentvars, auxvars>>

\* lines 110-112 and 122-124: self._message_queue.put_nowait(json_msg)
SendPut(t) ==
    /\ threads[t].pc = "put"
    /\ IF ~QueueFull(message_queue)
         THEN /\ message_queue' = Append(message_queue, threads[t].msg)
              /\ threads' = [threads EXCEPT ![t].pc = Home(t),
                                            ![t].path = "none"]
         ELSE /\ message_queue' = message_queue
              /\ threads' = [threads EXCEPT ![t].pc = "drop"]
    /\ UNCHANGED <<flagvars, workervars, obsvars, ghostvars, frameBudget, ws,
                   open, dpc, tracevars, agentvars, auxvars>>

\* lines 113-116 and 125-128: on queue.Full, self._message_queue.get_nowait()
SendDropOldest(t) ==
    /\ threads[t].pc = "drop"
    /\ message_queue' = IF QueueEmpty(message_queue) THEN message_queue
                        ELSE Tail(message_queue)
    /\ threads' = [threads EXCEPT ![t].pc = "put_again"]
    /\ UNCHANGED <<flagvars, workervars, obsvars, ghostvars, frameBudget, ws,
                   open, dpc, tracevars, agentvars, auxvars>>

\* lines 117-120 and 129-132: second put_nowait, queue.Full is swallowed
SendPutAgain(t) ==
    /\ threads[t].pc = "put_again"
    /\ message_queue' = IF ~QueueFull(message_queue)
                          THEN Append(message_queue, threads[t].msg)
                          ELSE message_queue
    /\ threads' = [threads EXCEPT ![t].pc = Home(t), ![t].path = "none"]
    /\ UNCHANGED <<flagvars, workervars, obsvars, ghostvars, frameBudget, ws,
                   open, dpc, tracevars, agentvars, auxvars>>

(* ================= BackendConnection._heartbeat_loop ================== *)
HeartbeatLeavesNever == FALSE

\* line 278: while not self._shutdown.is_set()
HeartbeatLeaves == shutdown

\* lines 278-284: leave on shutdown, else call _send when is_connected (the
\* frame to submit is counted here, where the decision to send is taken)
HeartbeatLoop(h) ==
    /\ threads[h].pc = "hb_loop"
    /\ IF HeartbeatLeaves
         THEN /\ threads' = [threads EXCEPT ![h].pc = "exited"]
              /\ frameBudget' = frameBudget
         ELSE /\ is_connected
              /\ frameBudget > 0
              /\ frameBudget' = frameBudget - 1
              /\ threads' = [threads EXCEPT ![h].pc = "hb_send"]
    /\ UNCHANGED <<flagvars, workervars, obsvars, ghostvars,
                   message_queue, ws, open, dpc, tracevars,
                   agentvars, auxvars>>

(* ================ BackendConnection._connection_loop ================== *)
RECURSIVE Pow2(_)
Pow2(n) == IF n <= 0 THEN 1 ELSE 2 * Pow2(n - 1)

Min(a, b) == IF a <= b THEN a ELSE b
Max(a, b) == IF a >= b THEN a ELSE b

\* line 151: min(self._reconnect_delay * (2 ** (attempts - 1)), 60.0)
ReconnectDelayUncapped(attempts) == reconnect_delay * Pow2(attempts - 1)
ReconnectDelay(attempts) == Min(reconnect_delay * Pow2(attempts - 1), MaxDelay)

\* line 147: self._reconnect_attempts >= self._max_reconnect_attempts
AttemptsExhaustedStrict(attempts, limit) == attempts > limit
AttemptsExhausted(attempts, limit) == attempts >= limit

\* inbound frames: `registered`, `error` with a code, a frame of a type the
\* agent does not know, and data json.loads rejects
ErrorCodes == {"auth_error", "invalid_api_key", "rate_limited"}
Registered == [type |-> "registered", code |-> "none"]
Unhandled == [type |-> "unknown", code |-> "none"]
Undecodable == [type |-> "garbled", code |-> "none"]
Inbound == {Registered, Unhandled, Undecodable}
             \cup {[type |-> "error", code |-> c] : c \in ErrorCodes}

\* lines 156 and 136: self._shutdown.wait(delay) has returned (timeout or
\* event set); while not self._shutdown.is_set()
WorkerLoop ==
    /\ wpc = "loop"
    /\ wpc' = IF shutdown THEN "exited" ELSE "connect"
    /\ UNCHANGED <<flagvars, reconnect_attempts, max_reconnect_attempts,
                   nconn, okBudget, failBudget, wheld, delay, errlog,
                   failStreak, sendervars, obsvars, ghostvars, message_queue,
                   ws, open, dpc, tracevars, agentvars, auxvars>>

\* lines 167-170: the handshake succeeds; self._ws, _connected, attempts = 0
WorkerConnectOk ==
    /\ wpc = "connect"
    /\ okBudget > 0
    /\ okBudget' = okBudget - 1
    /\ nconn' = nconn + 1
    /\ ws' = nconn + 1
    /\ open' = open \cup {nconn + 1}
    /\ connected' = TRUE
    /\ reconnect_attempts' = 0
    /\ failStreak' = 0
    /\ wpc' = "auth"
    /\ overlap' = (overlap \/ \E t \in DOMAIN threads :
                                  IsApp(t) /\ threads[t].pc # "idle")
    /\ UNCHANGED <<authenticated, shutdown, max_reconnect_attempts,
                   failBudget, wheld, delay, errlog, sendervars, obsvars,
                   logWire, era, lateSubs, message_queue, dpc, tracevars,
                   agentvars, auxvars>>

\* line 167 raises (the handshake fails), caught at line 139; an attempt
\* that is in progress when the shutdown event is set is the last one and
\* needs no budget
WorkerConnectFail ==
    /\ wpc = "connect"
    /\ failBudget > 0 \/ shutdown
    /\ failBudget' = IF failBudget > 0 THEN failBudget - 1 ELSE 0
    /\ failStreak' = failStreak + 1
    /\ wpc' = "after"
    /\ UNCHANGED <<flagvars, reconnect_attempts, max_reconnect_attempts,
                   nconn, okBudget, wheld, delay, errlog, sendervars, obsvars,
                   ghostvars, message_queue, ws, open, dpc, tracevars,
                   agentvars, auxvars>>

\* lines 175-180 and 199-215: send `register`, start a heartbeat worker.
\* A failing send leaves the `with` block by the exception: the channel is
\* closed and lines 196-197 are skipped.
WorkerAuthenticate ==
    /\ wpc = "auth"
    /\ IF SendSucceeds(ws)
         THEN /\ Accept(ws, RegisterFrame(ws))
              /\ threads' = threads @@ (Heartbeat(ws) :> NewThread("hb_loop"))
              /\ wpc' = "recv"
              /\ open' = open
         ELSE /\ UNCHANGED obsvars
              /\ threads' = threads
              /\ wpc' = "after"
              /\ open' = open \ {ws}
    /\ UNCHANGED <<flagvars, reconnect_attempts, max_reconnect_attempts,
                   nconn, okBudget, failBudget, wheld, delay, errlog,
                   failStreak, frameBudget, ghostvars, message_queue, ws, dpc,
                   tracevars, agentvars, auxvars>>

\* lines 185-194: the receive loop ends on shutdown or on a receive error
\* (the channel is closed); a receive timeout changes nothing
WorkerRecvEnd ==
    /\ wpc = "recv"
    /\ shutdown \/ ws \notin open
    /\ wpc' = "leave"
    /\ UNCHANGED <<flagvars, reconnect_attempts, max_reconnect_attempts,
                   nconn, okBudget, failBudget, wheld, delay, errlog,
                   failStreak, sendervars, obsvars, ghostvars, message_queue,
                   ws, open, dpc, tracevars, agentvars, auxvars>>

\* lines 187-188, 217-237, 241, 256-263: one inbound frame is dispatched.
\* `registered`: self._authenticated = True, then the flush loop.
\* `error`: the code is printed; an authentication failure sets
\* self._max_reconnect_attempts = 0 and calls disconnect().
\* Any other type reaches the final else (lines 232-234); data that cannot
\* be decoded raises inside the try and is caught at line 235.
WorkerRecvMessage(m) ==
    /\ wpc = "recv"
    /\ ~shutdown
    /\ ws \in open
    /\ IF m.type = "registered"
         THEN /\ authenticated' = TRUE
              /\ wpc' = "flush"
              /\ era' = IF authenticated THEN era ELSE era + 1
              /\ backlog' = IF authenticated \/ ~logWire THEN backlog
                            ELSE Range(message_queue)
              /\ UNCHANGED <<max_reconnect_attempts, errlog>>
       ELSE IF m.type = "error"
         THEN /\ errlog' = m.code
              /\ IF IsAuthFailure(m.code)
                   THEN /\ max_reconnect_attempts' = 0
                        /\ wpc' = "err_disconnect"
                   ELSE UNCHANGED <<max_reconnect_attempts, wpc>>
              /\ UNCHANGED <<authenticated, era, backlog>>
       ELSE UNCHANGED <<authenticated, era, backlog, max_reconnect_attempts,
                        errlog, wpc>>
    /\ UNCHANGED <<connected, shutdown, reconnect_attempts, nconn, okBudget,
                   failBudget, wheld, delay, failStreak, sendervars, wire, hi,
                   misordered, rxCount, logWire, overlap, lateSubs,
                   message_queue, ws, open, dpc, tracevars,
                   agentvars, auxvars>>

\* lines 245-247 and 253-254: next queued frame, or the queue is empty
WorkerFlushGet ==
    /\ wpc = "flush"
    /\ IF QueueEmpty(message_queue)
         THEN /\ wpc' = "recv"
              /\ UNCHANGED <<message_queue, wheld>>
         ELSE /\ wheld' = Head(message_queue)
              /\ message_queue' = Tail(message_queue)
              /\ wpc' = "flush_send"
    /\ UNCHANGED <<flagvars, reconnect_attempts, max_reconnect_attempts,
                   nconn, okBudget, failBudget, delay, errlog, failStreak,
                   sendervars, obsvars, ghostvars, ws, open, dpc, tracevars,
                   agentvars, auxvars>>

\* lines 248-252: self._ws.send(queued); a failure is swallowed
WorkerFlushSend ==
    /\ wpc = "flush_send"
    /\ IF SendSucceeds(ws) THEN Accept(ws, wheld) ELSE UNCHANGED obsvars
    /\ wheld' = NoFrame
    /\ wpc' = "flush"
    /\ UNCHANGED <<flagvars, reconnect_attempts, max_reconnect_attempts,
                   nconn, okBudget, failBudget, delay, errlog, failStreak,
                   sendervars, ghostvars, message_queue, ws, open, dpc,
                   tracevars, agentvars, auxvars>>

\* lines 264 and 53-55: _handle_error calls disconnect(): event and flags
WorkerErrDisconnect ==
    /\ wpc = "err_disconnect"
    /\ shutdown' = TRUE
    /\ connected' = FALSE
    /\ authenticated' = FALSE
    /\ wpc' = "err_close"
    /\ UNCHANGED <<reconnect_attempts, max_reconnect_attempts, nconn,
                   okBudget, failBudget, wheld, delay, errlog, failStreak,
                   sendervars, obsvars, ghostvars, message_queue, ws, open,
                   dpc, tracevars, agentvars, auxvars>>

\* lines 56-60: self._ws.close(); _handle_error returns to the receive loop
WorkerErrClose ==
    /\ wpc = "err_close"
    /\ open' = open \ {ws}
    /\ wpc' = "recv"
    /\ UNCHANGED <<flagvars, reconnect_attempts, max_reconnect_attempts,
                   nconn, okBudget, failBudget, wheld, delay, errlog,
                   failStreak, sendervars, obsvars, ghostvars, message_queue,
                   ws, dpc, tracevars, agentvars, auxvars>>

\* line 167 (leaving the `with` block closes the channel) and lines 196-197
WorkerLeave ==
    /\ wpc = "leave"
    /\ open' = open \ {ws}
    /\ connected' = FALSE
    /\ authenticated' = FALSE
    /\ wpc' = "after"
    /\ UNCHANGED <<shutdown, reconnect_attempts, max_reconnect_attempts,
                   nconn, okBudget, failBudget, wheld, delay, errlog,
                   failStreak, sendervars, obsvars, ghostvars, message_queue,
                   ws, dpc, tracevars, agentvars, auxvars>>

\* lines 143-151: leave on shutdown; count the attempt; leave when the
\* attempts are exhausted; else compute the delay
WorkerAfter ==
    /\ wpc = "after"
    /\ IF shutdown
         THEN /\ wpc' = "exited"
              /\ UNCHANGED <<reconnect_attempts, delay>>
         ELSE /\ reconnect_attempts' = reconnect_attempts + 1
              /\ IF AttemptsExhausted(reconnect_attempts + 1,
                                      max_reconnect_attempts)
                   THEN /\ wpc' = "exited"
                        /\ delay' = delay
                   ELSE /\ wpc' = "loop"
                        /\ delay' = ReconnectDelay(reconnect_attempts + 1)
    /\ UNCHANGED <<flagvars, max_reconnect_attempts, nconn, okBudget,
                   failBudget, wheld, errlog, failStreak, sendervars, obsvars,
                   ghostvars, message_queue, ws, open, dpc, tracevars,
                   agentvars, auxvars>>

(* ================== BackendConnection.disconnect ====================== *)
\* lines 53-55, called by the application (AIVoryAgent._cleanup)
Disconnect ==
    /\ dpc = "idle"
    /\ shutdown' = TRUE
    /\ connected' = FALSE
    /\ authenticated' = FALSE
    /\ dpc' = "close"
    /\ UNCHANGED <<workervars, sendervars, obsvars, ghostvars, message_queue,
                   ws, open, tracevars, agentvars, auxvars>>

\* lines 56-60: if self._ws: self._ws.close()
DisconnectClose ==
    /\ dpc = "close"
    /\ open' = open \ {ws}
    /\ dpc' = "done"
    /\ UNCHANGED <<flagvars, workervars, sendervars, obsvars, ghostvars,
                   message_queue, ws, tracevars, agentvars, auxvars>>

(* ============================ environment ============================= *)
\* the backend or the network closes an open channel
PeerClose(c) ==
    /\ c \in open
    /\ open' = open \ {c}
    /\ UNCHANGED <<flagvars, workervars, sendervars, obsvars, ghostvars,
                   message_queue, ws, dpc, tracevars, agentvars, auxvars>>

(* ============================ TraceManager ============================ *)
\* File names are sequences of characters over a small alphabet, so that
\* str.lower, os.path.normpath and str.endswith act on characters.
BreakpointIds == {"bp1", "bp2"}
BreakpointPaths == {<<"/", "a", "/", "b">>, <<"/", "A", "/", "b">>, <<"b">>}
CodePaths == {<<"/", "a", "/", "b">>, <<"/", "a", "/", "/", "b">>,
              <<"/", "b", "/", "a">>}
Lines == {10, 20}
Conditions == {"none", "c"}
RequestedMaxHits == {0, 2, 51}
EvalResults == {"true", "false", "raise"}
\* the thread that calls AIVoryAgent.start and stop, and the other threads
MainThread == "main"
\* trace functions: none, self._trace_callback, a function of the application
NoTrace == "none"
TraceCallback == "callback"
OtherThreads == {"t1", "t2"}

\* str.lower
Lower(c) == IF c = "A" THEN "a" ELSE c

\* os.path.normpath on names without `.` or `..` components, without a
\* trailing separator and without two leading separators: runs of separators
\* collapse to one
RECURSIVE NormPath(_)
NormPath(p) ==
    IF Len(p) <= 1 THEN p
    ELSE IF p[1] = "/" /\ p[2] = "/" THEN NormPath(Tail(p))
    ELSE <<p[1]>> \o NormPath(Tail(p))

\* Breakpoint.__init__ line 37: os.path.normpath(file_path).lower()
NormalizedPath(p) == [i \in 1..Len(NormPath(p)) |-> Lower(NormPath(p)[i])]

\* str.endswith
EndsWith(s, suffix) ==
    /\ Len(suffix) <= Len(s)
    /\ SubSeq(s, Len(s) - Len(suffix) + 1, Len(s)) = suffix

\* line 93: min(max(max_hits, 1), 50)
ClampHitsNoFloor(max_hits) == Min(max_hits, MaxHits)
ClampHits(max_hits) == Min(Max(max_hits, MinHits), MaxHits)

\* Breakpoint.__init__, lines 21-37
NewBreakpoint(id, path, line, cond, max_hits) ==
    [backend_id |-> id, file_path |-> path, line_number |-> line,
     condition |-> cond, max_hits |-> max_hits, hit_count |-> 0,
     normalized_path |-> NormalizedPath(path)]

\* position of key `np` in self._breakpoints_by_file, 0 when absent
KeyIndex(byfile, np) ==
    IF \E k \in 1..Len(byfile) : byfile[k].path = np
      THEN CHOOSE k \in 1..Len(byfile) : byfile[k].path = np
      ELSE 0

\* TraceManager.enable, lines 55-63, called by AIVoryAgent.start on the main
\* thread: sys.settrace sets the trace function of the calling thread only
Enable ==
    /\ ~enabled
    /\ enabled' = TRUE
    /\ hooked' = hooked \cup {MainThread}
    /\ original_trace' = sys_trace
    /\ sys_trace' = TraceCallback
    /\ UNCHANGED <<alive, heap, breakpoints, breakpoints_by_file, hits,
                   sinceInstall, cmdBudget, lineBudget, transportvars,
                   agentvars, capturevars, facadevars, racevars>>

\* TraceManager.disable, lines 68-78, called on the main thread: the trace
\* function of the calling thread is reset, both registries are cleared
Disable ==
    /\ enabled
    /\ cmdBudget > 0
    /\ cmdBudget' = cmdBudget - 1
    /\ enabled' = FALSE
    /\ hooked' = hooked \ {MainThread}
    /\ breakpoints' = [id \in BreakpointIds |-> 0]
    /\ breakpoints_by_file' = <<>>
    /\ sinceInstall' = [id \in BreakpointIds |-> 0]
    /\ sys_trace' = original_trace
    /\ original_trace' = NoTrace
    /\ UNCHANGED <<alive, heap, hits, lineBudget, transportvars, agentvars,
                   capturevars, facadevars, racevars>>

\* TraceManager.set_breakpoint, lines 83-100
SetBreakpoint(id, path, line, cond, max_hits) ==
    /\ cmdBudget > 0
    /\ cmdBudget' = cmdBudget - 1
    /\ LET bp == NewBreakpoint(id, path, line, cond, ClampHits(max_hits))
           ref == Len(heap) + 1
           k == KeyIndex(breakpoints_by_file, bp.normalized_path)
       IN /\ heap' = Append(heap, bp)
          /\ breakpoints' = [breakpoints EXCEPT ![id] = ref]
          /\ breakpoints_by_file' =
                IF k = 0
                  THEN Append(breakpoints_by_file,
                              [path |-> bp.normalized_path, bps |-> <<ref>>])
                  ELSE [breakpoints_by_file EXCEPT ![k].bps = Append(@, ref)]
    /\ sinceInstall' = [sinceInstall EXCEPT ![id] = 0]
    /\ UNCHANGED <<enabled, alive, hooked, hits, lineBudget,
                   transportvars, agentvars, auxvars>>

\* the entries of list `bps` whose backend_id differs from `id` (line 110-112)
RECURSIVE Without(_, _, _)
Without(bps, id, h) ==
    IF bps = <<>> THEN <<>>
    ELSE IF h[Head(bps)].backend_id = id THEN Without(Tail(bps), id, h)
    ELSE <<Head(bps)>> \o Without(Tail(bps), id, h)

\* TraceManager.remove_breakpoint, lines 105-112
RemoveBreakpoint(id) ==
    /\ cmdBudget > 0
    /\ cmdBudget' = cmdBudget - 1
    /\ LET ref == breakpoints[id]
           k == IF ref = 0 THEN 0
                ELSE KeyIndex(breakpoints_by_file, heap[ref].normalized_path)
       IN /\ breakpoints' = [breakpoints EXCEPT ![id] = 0]
          /\ breakpoints_by_file' =
                IF ref = 0 THEN breakpoints_by_file
                ELSE IF k = 0
                  THEN Append(breakpoints_by_file,
                              [path |-> heap[ref].normalized_path,
                               bps |-> <<>>])
                  ELSE [breakpoints_by_file EXCEPT
                          ![k].bps = Without(@, id, heap)]
    /\ sinceInstall' = [sinceInstall EXCEPT ![id] = 0]
    /\ UNCHANGED <<enabled, alive, hooked, heap, hits, lineBudget,
                   transportvars, agentvars, auxvars>>

\* lines 146-153: the list looked up for file name `np`: the exact key when
\* its list is not empty, else the list of the first key, in insertion
\* order, that is a suffix of `np` or has `np` as a suffix
RECURSIVE FirstSuffixMatch(_, _, _)
FirstSuffixMatch(byfile, np, k) ==
    IF k > Len(byfile) THEN <<>>
    ELSE IF EndsWith(np, byfile[k].path) \/ EndsWith(byfile[k].path, np)
      THEN byfile[k].bps
    ELSE FirstSuffixMatch(byfile, np, k + 1)

FileBreakpoints(byfile, np) ==
    LET k == KeyIndex(byfile, np) IN
    IF k # 0 /\ byfile[k].bps # <<>> THEN byfile[k].bps
    ELSE FirstSuffixMatch(byfile, np, 1)

\* _handle_breakpoint_hit, lines 171-183: the hit is reported iff the budget
\* is not spent and the condition, if any, evaluates to a true value
Reports(bp, r) ==
    /\ ~(bp.hit_count >= bp.max_hits)
    /\ bp.condition = "none" \/ r = "true"

\* lines 157-160 and 168-204: the loop over the list; each reported hit
\* increments the object's hit_count and hands a frame to the transport
RECURSIVE Visit(_, _, _, _)
Visit(bps, line, r, acc) ==
    IF bps = <<>> THEN acc
    ELSE LET ref == Head(bps)
             bp == acc.heap[ref]
         IN IF bp.line_number = line /\ Reports(bp, r)
              THEN Visit(Tail(bps), line, r,
                     [heap |-> [acc.heap EXCEPT ![ref].hit_count = @ + 1],
                      hits |-> Append(acc.hits,
                                      [id |-> bp.backend_id,
                                       file_path |-> bp.file_path,
                                       line_number |-> bp.line_number,
                                       hit_count |-> bp.hit_count + 1]),
                      since |-> [acc.since EXCEPT ![bp.backend_id] = @ + 1]])
              ELSE Visit(Tail(bps), line, r, acc)

\* TraceManager._trace_callback for one `line` event, lines 130-166: thread
\* t, whose trace function is the callback, executes line `line` of `path`
LineEvent(t, path, line, r) ==
    /\ t \in alive \cap hooked
    /\ lineBudget > 0
    /\ lineBudget' = lineBudget - 1
    /\ LET np == NormalizedPath(path)
           bps == IF breakpoints_by_file = <<>> THEN <<>>
                  ELSE FileBreakpoints(breakpoints_by_file, np)
           res == Visit(bps, line, r,
                        [heap |-> heap, hits |-> hits, since |-> sinceInstall])
       IN /\ heap' = res.heap
          /\ hits' = res.hits
          /\ sinceInstall' = res.since
    /\ UNCHANGED <<enabled, alive, hooked, breakpoints, breakpoints_by_file,
                   cmdBudget, transportvars, agentvars, auxvars>>

\* thread t, which has no trace function, executes a line: the interpreter
\* calls nothing
LineSkipped(t) ==
    /\ t \in alive \ hooked
    /\ lineBudget > 0
    /\ lineBudget' = lineBudget - 1
    /\ UNCHANGED <<enabled, alive, hooked, heap, breakpoints,
                   breakpoints_by_file, hits, sinceInstall, cmdBudget,
                   transportvars, agentvars, auxvars>>

\* the application starts thread t: threading.Thread.start; a new thread has
\* no trace function (threading.settrace is not used)
Spawn(t) ==
    /\ t \notin alive
    /\ alive' = alive \cup {t}
    /\ UNCHANGED <<enabled, hooked, heap, breakpoints, breakpoints_by_file,
                   hits, sinceInstall, cmdBudget, lineBudget, transportvars,
                   agentvars, auxvars>>

(* ------------- ExceptionHandler, AgentConfig, AIVoryAgent -------------- *)
\* What a process hook slot can hold: the interpreter's hook, a hook of the
\* application, or the bound method of the ExceptionHandler.
BootHooks == {"default", "user"}
AgentHook == "agent"
NoHook == "none"

\* config.sampling_rate and the values of random.random(), in hundredths
SamplingRates == {0 - 50, 0, 50, 100, 150}
Draws == {0, 50, 99}

\* AgentConfig.should_sample: the two shortcuts, else one uniform draw
ShouldSampleInclusive(rate, draw) ==
    IF rate >= 100 THEN TRUE ELSE draw <= rate

ShouldSample(rate, draw) ==
    IF rate >= 100 THEN TRUE
    ELSE IF rate <= 0 THEN FALSE
    ELSE draw < rate

\* What can go wrong inside the agent while it reports one failure:
\*   "build"     ExceptionCaptureBuilder.capture raises (str(exception) at
\*               capture.py line 123 is not guarded)
\*   "serialize" json.dumps(message) in _send raises TypeError (a context
\*               value that is not JSON serializable)
\* Both are subclasses of Exception.
Failures == {"none", "build", "serialize"}

\* `except Exception` of the two hooks, handler.py lines 108 and 131
HookCatchesNothing(fail) == FALSE

HookCatches(fail) == fail \in {"build", "serialize"}

\* One report: the sampling decision, the builder, send_exception, in the
\* order of the code.  guarded says whether the caller wraps the report in
\* try/except.  The result is the list of what happened.
Report(sampled, has_value, fail, guarded) ==
    IF ~sampled THEN <<"sampled_out">>
    ELSE IF ~has_value THEN <<"no_value">>
    ELSE IF fail = "build"
      THEN <<IF guarded THEN "swallowed" ELSE "raised">>
    ELSE IF fail = "serialize"
      THEN <<"handed", IF guarded THEN "swallowed" ELSE "raised">>
    ELSE <<"handed", "sent">>

Count(seq, x) == Cardinality({i \in DOMAIN seq : seq[i] = x})

\* the bookkeeping shared by every call of the agent's interface
Called(name) ==
    /\ callBudget > 0
    /\ callBudget' = callBudget - 1
    /\ lastCall' = IF name \in {"install", "uninstall", "start", "stop"}
                     THEN name ELSE lastCall

Recorded(name, has_value, fail, did) ==
    /\ trail' = [call |-> name, value |-> has_value, fail |-> fail,
                 did |-> did]
    /\ handed' = handed + Count(did, "handed")
    /\ escapes' = escapes + Count(did, "raised")

NoTrail == [call |-> "none", value |-> FALSE, fail |-> "none", did |-> <<>>]

\* ExceptionHandler.install, line 32
InstallSkipsNever == FALSE

InstallSkips == installed

\* ExceptionHandler.install as a relation on the hook state
InstallHooks ==
    IF InstallSkips THEN UNCHANGED hookvars
    ELSE /\ original_excepthook' = sys_excepthook
         /\ original_unraisablehook' = sys_unraisablehook
         /\ sys_excepthook' = AgentHook
         /\ sys_unraisablehook' = AgentHook
         /\ installed' = TRUE

\* ExceptionHandler.uninstall as a relation on the hook state
UninstallHooks ==
    IF ~installed THEN UNCHANGED hookvars
    ELSE /\ sys_excepthook' = IF original_excepthook # NoHook
                                THEN original_excepthook ELSE sys_excepthook
         /\ sys_unraisablehook' = IF original_unraisablehook # NoHook
                                    THEN original_unraisablehook
                                    ELSE sys_unraisablehook
         /\ installed' = FALSE
         /\ UNCHANGED <<original_excepthook, original_unraisablehook>>

Install ==
    /\ Called("install")
    /\ InstallHooks
    /\ UNCHANGED <<started, launched, enable_breakpoints, sampling_rate,
                   boot_excepthook, boot_unraisablehook, trail, handed,
                   escapes, transportvars, tracevars, auxvars>>

Uninstall ==
    /\ Called("uninstall")
    /\ UninstallHooks
    /\ UNCHANGED <<started, launched, enable_breakpoints, sampling_rate,
                   boot_excepthook, boot_unraisablehook, trail, handed,
                   escapes, transportvars, tracevars, auxvars>>

\* ExceptionHandler._excepthook: the interpreter delivers an uncaught
\* exception to the hook in the slot.  The previous hook is called after the
\* try block.
Excepthook(fail, draw) ==
    /\ sys_excepthook = AgentHook
    /\ Called("excepthook")
    /\ LET own == Report(ShouldSample(sampling_rate, draw), TRUE, fail,
                         HookCatches(fail))
       IN  IF own[Len(own)] = "raised"
             THEN Recorded("excepthook", TRUE, fail, own)
             ELSE Recorded("excepthook", TRUE, fail,
                           IF original_excepthook # NoHook
                             THEN Append(own, "previous") ELSE own)
    /\ UNCHANGED <<started, launched, enable_breakpoints, sampling_rate,
                   hookvars, boot_excepthook, boot_unraisablehook,
                   transportvars, tracevars, auxvars>>

\* ExceptionHandler._unraisablehook: exc_value may be None
Unraisablehook(has_value, fail, draw) ==
    /\ sys_unraisablehook = AgentHook
    /\ Called("unraisablehook")
    /\ LET own == Report(ShouldSample(sampling_rate, draw), has_value, fail,
                         HookCatches(fail))
       IN  IF own[Len(own)] = "raised"
             THEN Recorded("unraisablehook", has_value, fail, own)
             ELSE Recorded("unraisablehook", has_value, fail,
                           IF original_unraisablehook # NoHook
                             THEN Append(own, "previous") ELSE own)
    /\ UNCHANGED <<started, launched, enable_breakpoints, sampling_rate,
                   hookvars, boot_excepthook, boot_unraisablehook,
                   transportvars, tracevars, auxvars>>

\* ExceptionHandler.capture: no try block around the builder and the send
Capture(fail, draw) ==
    /\ Called("capture")
    /\ Recorded("capture", TRUE, fail,
                Report(ShouldSample(sampling_rate, draw), TRUE, fail, FALSE))
    /\ UNCHANGED <<started, launched, enable_breakpoints, sampling_rate,
                   hookvars, boot_excepthook, boot_unraisablehook,
                   transportvars, tracevars, auxvars>>

\* AIVoryAgent.capture_exception: a no-op unless started
CaptureException(fail, draw) ==
    /\ Called("capture_exception")
    /\ IF started
         THEN Recorded("capture_exception", TRUE, fail,
                       Report(ShouldSample(sampling_rate, draw), TRUE, fail,
                              FALSE))
         ELSE Recorded("capture_exception", TRUE, fail, <<"not_started">>)
    /\ UNCHANGED <<started, launched, enable_breakpoints, sampling_rate,
                   hookvars, boot_excepthook, boot_unraisablehook,
                   transportvars, tracevars, auxvars>>

\* AIVoryAgent.start, line 33
StartSkipsNever == FALSE

StartSkips == started

\* AIVoryAgent.start, lines 31-54, called on the main thread: connect()
\* clears the shutdown event and starts a new worker thread (wpc follows the
\* newest worker), install(), then enable() when the agent has a trace manager
StartAgent ==
    /\ IF StartSkips
         THEN UNCHANGED <<started, launched, hookvars, transportvars,
                          tracevars, hooktracevars>>
         ELSE /\ connected' = FALSE
              /\ shutdown' = FALSE
              /\ wpc' = "loop"
              /\ launched' = launched + 1
              /\ InstallHooks
              /\ IF enable_breakpoints /\ ~enabled
                   THEN /\ enabled' = TRUE
                        /\ hooked' = hooked \cup {MainThread}
                        /\ original_trace' = sys_trace
                        /\ sys_trace' = TraceCallback
                   ELSE UNCHANGED <<enabled, hooked, hooktracevars>>
              /\ started' = TRUE
              /\ UNCHANGED <<authenticated, reconnect_attempts,
                             max_reconnect_attempts, wheld, delay, nconn,
                             errlog, failStreak, okBudget, failBudget,
                             sendervars, obsvars, ghostvars, message_queue,
                             ws, open, dpc>>
              /\ UNCHANGED <<alive, heap, breakpoints, breakpoints_by_file,
                             hits, sinceInstall, cmdBudget, lineBudget>>

AgentStart ==
    /\ Called("start")
    /\ StartAgent
    /\ UNCHANGED <<enable_breakpoints, sampling_rate, boot_excepthook,
                   boot_unraisablehook, trail, handed, escapes,
                   capturevars, facadevars, racevars>>

\* AIVoryAgent.stop, lines 56-62, with _cleanup, lines 75-84: disable(),
\* uninstall(), disconnect()
StopAgent ==
    /\ IF ~started
         THEN UNCHANGED <<started, launched, hookvars, transportvars,
                          tracevars, hooktracevars>>
         ELSE /\ IF enable_breakpoints /\ enabled
                   THEN /\ enabled' = FALSE
                        /\ hooked' = hooked \ {MainThread}
                        /\ breakpoints' = [id \in BreakpointIds |-> 0]
                        /\ breakpoints_by_file' = <<>>
                        /\ sinceInstall' = [id \in BreakpointIds |-> 0]
                        /\ sys_trace' = original_trace
                        /\ original_trace' = NoTrace
                   ELSE UNCHANGED <<enabled, hooked, breakpoints,
                                    breakpoints_by_file, sinceInstall,
                                    hooktracevars>>
              /\ UninstallHooks
              /\ shutdown' = TRUE
              /\ connected' = FALSE
              /\ authenticated' = FALSE
              /\ open' = open \ {ws}
              /\ started' = FALSE
              /\ UNCHANGED <<launched, workervars, sendervars, obsvars,
                             ghostvars, message_queue, ws, dpc>>
              /\ UNCHANGED <<alive, heap, hits, cmdBudget, lineBudget>>

AgentStop ==
    /\ Called("stop")
    /\ StopAgent
    /\ UNCHANGED <<enable_breakpoints, sampling_rate, boot_excepthook,
                   boot_unraisablehook, trail, handed, escapes,
                   capturevars, facadevars, racevars>>

(* ---------- ExceptionCaptureBuilder / TraceManager: _capture_value ------ *)
\* A value of the application as the capture engine sees it.
\*   kind   type(value).__name__ ("Obj" stands for any class of the
\*          application)
\*   text   the characters of a str, the bytes of a bytes, the digits of a
\*          number (one string per character or byte)
\*   items  the elements, entries or public and private attributes, in
\*          iteration order (dir() order for attributes)
\*   bad    len(), iteration or dir() of the value raises
\* An item has the key (for a dict: its type and str(k); for an object: the
\* attribute name), the value, and whether producing it raises (the iterator
\* raises at this element, getattr raises for this attribute).
Value(kind, text, items, bad) ==
    [kind |-> kind, text |-> text, items |-> items, bad |-> bad]

Key(t, s) == [t |-> t, s |-> s]
NoKey == Key("none", <<>>)
Item(key, value, raises) == [key |-> key, value |-> value, raises |-> raises]

\* bytes.hex(): two hexadecimal digits per byte
Bytes == {"00", "7f", "ff"}
HexPair(b) ==
    CASE b = "00" -> <<"0", "0">>
      [] b = "7f" -> <<"7", "f">>
      [] b = "ff" -> <<"f", "f">>

RECURSIVE Hex(_)
Hex(bs) == IF bs = <<>> THEN <<>> ELSE HexPair(Head(bs)) \o Hex(Tail(bs))

\* value[:n]
Take(seq, n) == SubSeq(seq, 1, Min(n, Len(seq)))

\* name.startswith('_')
StartsWithUnderscore(name) == name # <<>> /\ name[1] = "_"

\* str(k)[:100], lines 282 and 305
KeyLimit == 100
KeyStr(key) == Take(key.s, KeyLimit)

\* f'[{i}]'
IndexName(i) == <<"[", ToString(i), "]">>

\* CapturedVariable, capture.py lines 18-29; array_length None is -1
NoLength == 0 - 1
CapturedVariable(name, type, value) ==
    [name |-> name, type |-> type, value |-> value, is_null |-> FALSE,
     is_truncated |-> FALSE, children |-> <<>>, array_elements |-> <<>>,
     array_length |-> NoLength]

MaxDepthExceeded == <<"<max depth exceeded>">>

\* _capture_value either returns a node or raises
Returned(node) == [ok |-> TRUE, node |-> node]
Raises == [ok |-> FALSE, node |-> CapturedVariable(<<>>, "none", <<>>)]

\* children[key] = captured: a dict keeps the position of the first
\* insertion of a key and the value of the last one
Put(children, node) ==
    IF \E i \in DOMAIN children : children[i].name = node.name
      THEN [i \in DOMAIN children |->
              IF children[i].name = node.name THEN node ELSE children[i]]
      ELSE Append(children, node)

\* line 321: the public names of dir(value), at most max_collection_size
PublicAttrs(items, limit) ==
    Take(SelectSeq(items, LAMBDA it : ~StartsWithUnderscore(it.key.s)), limit)

\* line 207 and trace_manager.py line 230
DepthExceededLate(depth, limit) == depth > limit + 1

DepthExceeded(depth, limit) == depth > limit

\* callable(attr_value), line 326
Callable(value) == value.kind = "function"

\* The two copies of _capture_value: "builder" is capture.py lines 200-345,
\* "tracer" is trace_manager.py lines 223-324 (no branch for sets, and the
\* type alone for objects).
RECURSIVE CaptureValue(_, _, _, _)
RECURSIVE CaptureElements(_, _, _, _, _)
RECURSIVE CaptureEntries(_, _, _, _, _)
RECURSIVE CaptureAttrs(_, _, _, _, _)

\* the loops of lines 258-263 and 301-307: items[i] gets the index i - 1
CaptureElements(flavour, items, i, depth, acc) ==
    IF i > Len(items) \/ i - 1 >= max_collection_size
      THEN [ok |-> TRUE, nodes |-> acc]
    ELSE IF items[i].raises THEN [ok |-> FALSE, nodes |-> <<>>]
    ELSE LET c == CaptureValue(flavour, IndexName(i - 1), items[i].value,
                               depth + 1)
         IN  IF ~c.ok THEN [ok |-> FALSE, nodes |-> <<>>]
             ELSE CaptureElements(flavour, items, i + 1, depth,
                                  Append(acc, c.node))

\* the loop of lines 279-286
CaptureEntries(flavour, items, i, depth, acc) ==
    IF i > Len(items) \/ i - 1 >= max_collection_size
      THEN [ok |-> TRUE, nodes |-> acc]
    ELSE IF items[i].raises THEN [ok |-> FALSE, nodes |-> <<>>]
    ELSE LET c == CaptureValue(flavour, KeyStr(items[i].key),
                               items[i].value, depth + 1)
         IN  IF ~c.ok THEN [ok |-> FALSE, nodes |-> <<>>]
             ELSE CaptureEntries(flavour, items, i + 1, depth,
                                 Put(acc, c.node))

\* the loop of lines 323-332: a failure of getattr or of the nested capture
\* is swallowed, a callable is skipped
CaptureAttrs(flavour, attrs, i, depth, acc) ==
    IF i > Len(attrs) THEN acc
    ELSE IF attrs[i].raises \/ Callable(attrs[i].value)
      THEN CaptureAttrs(flavour, attrs, i + 1, depth, acc)
    ELSE LET c == CaptureValue(flavour, attrs[i].key.s, attrs[i].value,
                               depth + 1)
         IN  CaptureAttrs(flavour, attrs, i + 1, depth,
                          IF c.ok THEN Put(acc, c.node) ELSE acc)

CaptureValue(flavour, name, value, depth) ==
    LET type_name == value.kind
        total_length == Len(value.items)
        sized == <<type_name, "[", ToString(total_length), "]">>
        plain == CapturedVariable(name, type_name, <<"<", type_name, ">">>)
    IN
    IF DepthExceeded(depth, max_capture_depth)
      THEN Returned([CapturedVariable(name, type_name, MaxDepthExceeded)
                       EXCEPT !.is_truncated = TRUE])
    ELSE IF value.kind = "NoneType"
      THEN Returned([CapturedVariable(name, "NoneType", <<"None">>)
                       EXCEPT !.is_null = TRUE])
    ELSE IF value.kind \in {"bool", "int", "float"}
      THEN Returned(CapturedVariable(name, type_name, value.text))
    ELSE IF value.kind = "str"
      THEN LET truncated == Len(value.text) > max_string_length
           IN  Returned([CapturedVariable(name, "str",
                             IF truncated
                               THEN Take(value.text, max_string_length)
                               ELSE value.text)
                           EXCEPT !.is_truncated = truncated])
    ELSE IF value.kind = "bytes"
      THEN LET truncated == Len(value.text) > max_string_length
           IN  Returned([CapturedVariable(name, "bytes",
                             IF truncated
                               THEN Hex(Take(value.text, max_string_length))
                               ELSE Hex(value.text))
                           EXCEPT !.is_truncated = truncated])
    ELSE IF value.kind \in {"list", "tuple"}
              \/ (value.kind = "set" /\ flavour = "builder")
      THEN IF value.bad THEN Raises
           ELSE LET r == CaptureElements(flavour, value.items, 1, depth, <<>>)
                IN  IF ~r.ok THEN Raises
                    ELSE Returned([CapturedVariable(name, type_name, sized)
                             EXCEPT !.array_elements = r.nodes,
                                    !.array_length = total_length,
                                    !.is_truncated =
                                        total_length > max_collection_size])
    ELSE IF value.kind = "dict"
      THEN IF value.bad THEN Raises
           ELSE LET r == CaptureEntries(flavour, value.items, 1, depth, <<>>)
                IN  IF ~r.ok THEN Raises
                    ELSE Returned([CapturedVariable(name, "dict", sized)
                             EXCEPT !.children = r.nodes,
                                    !.is_truncated =
                                        total_length > max_collection_size])
    ELSE IF flavour = "tracer" \/ value.bad
      THEN Returned(plain)
    ELSE Returned([plain EXCEPT !.children =
                     CaptureAttrs(flavour,
                                  PublicAttrs(value.items,
                                              max_collection_size),
                                  1, depth, <<>>)])

\* _capture_local_variables, capture.py lines 182-198 and trace_manager.py
\* lines 206-221: a name that begins with '_' is skipped, a value whose
\* capture raises is skipped
RECURSIVE CaptureLocalVariables(_, _, _)
CaptureLocalVariables(flavour, locals, acc) ==
    IF locals = <<>> THEN acc
    ELSE LET l == Head(locals)
             c == CaptureValue(flavour, l.name, l.value, 0)
         IN  CaptureLocalVariables(flavour, Tail(locals),
               IF StartsWithUnderscore(l.name) \/ ~c.ok THEN acc
               ELSE Put(acc, c.node))

(* ------- ExceptionCaptureBuilder: stack trace, fingerprint, capture ----- *)
\* One step of exception.__traceback__: the frame's code name, tb_lineno
\* (None is -1) and whether co_filename names no real file.  The chain runs
\* from the frame that the failure has reached to the frame that raised it.
NoLine == 0 - 1
TracebackStep(method_name, line_number, is_native) ==
    [method_name |-> method_name, line_number |-> line_number,
     is_native |-> is_native]

\* line 165: if len(frames) >= 50: break
MaxStackFrames == 50

\* _extract_stack_trace, lines 135-168: the chain is walked by tb_next and
\* a StackFrameInfo is appended for each step, until 50 are collected
RECURSIVE ExtractStackTrace(_, _)
ExtractStackTrace(tb, frames) ==
    IF tb = <<>> THEN frames
    ELSE LET more == Append(frames, Head(tb))
         IN  IF Len(more) >= MaxStackFrames THEN more
             ELSE ExtractStackTrace(Tail(tb), more)

\* line 362: f'{frame.method_name}:{frame.line_number or 0}'
LineOrZero(n) == IF n = NoLine THEN 0 ELSE n
FramePart(frame) ==
    <<frame.method_name, ":", ToString(LineOrZero(frame.line_number))>>

\* lines 358-361: at most 5 frames are added, a native frame is passed over
MaxFingerprintFrames == 5

FingerprintSkipsNone(frame) == FALSE

FingerprintSkips(frame) == frame.is_native

\* lines 353-363: the parts, already joined with ':' as line 365 does
RECURSIVE FingerprintParts(_, _, _)
FingerprintParts(stack_trace, added, parts) ==
    IF stack_trace = <<>> \/ added >= MaxFingerprintFrames THEN parts
    ELSE IF FingerprintSkips(Head(stack_trace))
      THEN FingerprintParts(Tail(stack_trace), added, parts)
    ELSE FingerprintParts(Tail(stack_trace), added + 1,
                          parts \o <<":">> \o FramePart(Head(stack_trace)))

\* line 366: the first 16 hexadecimal digits of SHA-256, taken as a
\* collision-free digest of its input
Sha256Hex16(hash_input) == [digest |-> hash_input]

CalculateFingerprint(exc, stack_trace) ==
    Sha256Hex16(FingerprintParts(stack_trace, 0, <<exc.type>>))

NoCapture ==
    [by |-> "none", exception_type |-> "none", message |-> "none",
     fingerprint |-> Sha256Hex16(<<>>), stack_trace |-> <<>>,
     local_variables |-> <<>>]

\* ExceptionCaptureBuilder.capture, lines 109-133, as the hooks and
\* ExceptionHandler.capture call it: with the innermost frame
BuildCapture(exc, locals) ==
    LET stack_trace == ExtractStackTrace(exc.traceback, <<>>)
    IN  [by |-> "builder",
         exception_type |-> exc.type,
         message |-> exc.message,
         fingerprint |-> CalculateFingerprint(exc, stack_trace),
         stack_trace |-> stack_trace,
         local_variables |-> CaptureLocalVariables("builder", locals, <<>>)]

BuilderCapture ==
    /\ capture.by = "none"
    /\ capture' = BuildCapture(exception, f_locals)
    /\ UNCHANGED <<max_capture_depth, max_string_length, max_collection_size,
                   exception, f_locals, facadevars, hooktracevars, racevars,
                   transportvars, tracevars, agentvars>>

\* TraceManager._capture_local_variables, lines 206-221, applied to the frame
\* of a breakpoint hit
TracerCaptureLocals ==
    /\ capture.by = "none"
    /\ capture' = [NoCapture EXCEPT
                     !.by = "tracer",
                     !.local_variables =
                         CaptureLocalVariables("tracer", f_locals, <<>>)]
    /\ UNCHANGED <<max_capture_depth, max_string_length, max_collection_size,
                   exception, f_locals, facadevars, hooktracevars, racevars,
                   transportvars, tracevars, agentvars>>

(* ------------------- aivory_monitor.init / shutdown -------------------- *)
\* What init() finds in its arguments and in os.environ: whether an api key
\* is given, and the text of AIVORY_MAX_DEPTH (not set, an integer, or
\* something int() rejects) when max_capture_depth is not passed.
Environs == [api_key : {"set", "unset"},
             max_depth : {"unset", "number", "garbled"}]

\* AgentConfig.__post_init__, lines 48-50: int(os.environ.get(...)) raises
\* ValueError
ConfigRaises(env) == env.max_depth = "garbled"

\* aivory_monitor.init, lines 37-88
ModuleInit ==
    /\ Called("init")
    /\ IF initialized
         THEN /\ init_result' = "already"
              /\ UNCHANGED <<initialized, started, launched, hookvars,
                             transportvars, tracevars, hooktracevars>>
       ELSE IF ConfigRaises(environ)
         THEN /\ init_result' = "raised"
              /\ UNCHANGED <<initialized, started, launched, hookvars,
                             transportvars, tracevars, hooktracevars>>
       ELSE IF environ.api_key = "unset"
         THEN /\ init_result' = "refused"
              /\ UNCHANGED <<initialized, started, launched, hookvars,
                             transportvars, tracevars, hooktracevars>>
       ELSE /\ init_result' = "initialized"
            /\ initialized' = TRUE
            /\ StartAgent
    /\ UNCHANGED <<enable_breakpoints, sampling_rate, boot_excepthook,
                   boot_unraisablehook, trail, handed, escapes, capturevars,
                   environ, racevars>>

\* aivory_monitor.shutdown, lines 91-100
ModuleShutdown ==
    /\ Called("shutdown")
    /\ IF initialized
         THEN /\ StopAgent
              /\ initialized' = FALSE
         ELSE UNCHANGED <<initialized, started, launched, hookvars,
                          transportvars, tracevars, hooktracevars>>
    /\ UNCHANGED <<enable_breakpoints, sampling_rate, boot_excepthook,
                   boot_unraisablehook, trail, handed, escapes, capturevars,
                   environ, init_result, racevars>>

(* ---------- TraceManager._trace_callback, one loop turn at a time ------ *)
\* no _trace_callback call is in progress
NoCallback == [pc |-> "idle", np |-> <<>>, line |-> 0, r |-> "true",
               k |-> 0, size |-> 0]

\* the events other than `line` the interpreter reports to a trace function
OtherEvents == {"call", "return", "exception"}

\* how a _trace_callback call ends: it returns self._trace_callback, or an
\* exception leaves it
ReturnsItself == /\ cb' = NoCallback
                 /\ cb_result' = "returned"
RaisesRuntimeError == /\ cb' = NoCallback
                      /\ cb_result' = "raised"

\* lines 157-160: the loop over the list found, with _handle_breakpoint_hit
Visits(bps, line, r) ==
    LET res == Visit(bps, line, r,
                     [heap |-> heap, hits |-> hits, since |-> sinceInstall])
    IN  /\ heap' = res.heap
        /\ hits' = res.hits
        /\ sinceInstall' = res.since

\* _trace_callback, lines 132-134, on the main thread for an event that is
\* not `line`
CallbackOther(event) ==
    /\ MainThread \in alive \cap hooked
    /\ cb.pc = "idle"
    /\ lineBudget > 0
    /\ lineBudget' = lineBudget - 1
    /\ event # "line"
    /\ ReturnsItself
    /\ UNCHANGED <<enabled, alive, hooked, heap, breakpoints,
                   breakpoints_by_file, hits, sinceInstall, cmdBudget,
                   transportvars, agentvars, capturevars, facadevars,
                   hooktracevars, boot_trace, spc>>

\* _trace_callback, lines 132-148, on the main thread for a `line` event, up
\* to the exact lookup; when that finds no list the loop over
\* self._breakpoints_by_file.items() begins (the dict iterator remembers the
\* size of the dict)
CallbackBegin(path, line, r) ==
    /\ MainThread \in alive \cap hooked
    /\ cb.pc = "idle"
    /\ lineBudget > 0
    /\ lineBudget' = lineBudget - 1
    /\ LET np == NormalizedPath(path)
           k == KeyIndex(breakpoints_by_file, np)
       IN IF breakpoints_by_file = <<>>
            THEN /\ ReturnsItself
                 /\ UNCHANGED <<heap, hits, sinceInstall>>
          ELSE IF k # 0 /\ breakpoints_by_file[k].bps # <<>>
            THEN /\ Visits(breakpoints_by_file[k].bps, line, r)
                 /\ ReturnsItself
          ELSE /\ cb' = [pc |-> "iterate", np |-> np, line |-> line, r |-> r,
                         k |-> 1, size |-> Len(breakpoints_by_file)]
               /\ cb_result' = "none"
               /\ UNCHANGED <<heap, hits, sinceInstall>>
    /\ UNCHANGED <<enabled, alive, hooked, breakpoints, breakpoints_by_file,
                   cmdBudget, transportvars, agentvars, capturevars,
                   facadevars, hooktracevars, boot_trace, spc>>

\* lines 149-160: one turn of `for bp_path, bps in ...items()`.  The iterator
\* raises RuntimeError (dictionary changed size during iteration) when a key
\* was added since the loop began; nothing in _trace_callback catches it.
CallbackNext ==
    /\ cb.pc = "iterate"
    /\ IF Len(breakpoints_by_file) # cb.size
         THEN /\ RaisesRuntimeError
              /\ UNCHANGED <<heap, hits, sinceInstall>>
       ELSE IF cb.k > Len(breakpoints_by_file)
         THEN /\ ReturnsItself
              /\ UNCHANGED <<heap, hits, sinceInstall>>
       ELSE IF \/ EndsWith(cb.np, breakpoints_by_file[cb.k].path)
               \/ EndsWith(breakpoints_by_file[cb.k].path, cb.np)
         THEN /\ Visits(breakpoints_by_file[cb.k].bps, cb.line, cb.r)
              /\ ReturnsItself
       ELSE /\ cb' = [cb EXCEPT !.k = @ + 1]
            /\ cb_result' = cb_result
            /\ UNCHANGED <<heap, hits, sinceInstall>>
    /\ UNCHANGED <<enabled, alive, hooked, breakpoints, breakpoints_by_file,
                   cmdBudget, lineBudget, transportvars, agentvars,
                   capturevars, facadevars, hooktracevars, boot_trace, spc>>


\* AIVoryAgent.start, lines 31-48, called on a thread t other than the main
\* thread: connect(), install() and enable() run as on the main thread
\* (enable() sets the trace function of t), then signal.signal raises
\* ValueError at line 47, before self._started = True of line 50
AgentStartOffMain(t) ==
    /\ t \in alive \ {MainThread}
    /\ Called("start")
    /\ IF StartSkips
         THEN UNCHANGED <<launched, hookvars, transportvars, tracevars,
                          hooktracevars, escapes>>
         ELSE /\ connected' = FALSE
              /\ shutdown' = FALSE
              /\ wpc' = "loop"
              /\ launched' = launched + 1
              /\ InstallHooks
              /\ IF enable_breakpoints /\ ~enabled
                   THEN /\ enabled' = TRUE
                        /\ hooked' = hooked \cup {t}
                        /\ original_trace' = NoTrace
                        /\ UNCHANGED sys_trace
                   ELSE UNCHANGED <<enabled, hooked, hooktracevars>>
              /\ escapes' = escapes + 1
              /\ UNCHANGED <<authenticated, reconnect_attempts,
                             max_reconnect_attempts, wheld, delay, nconn,
                             errlog, failStreak, okBudget, failBudget,
                             sendervars, obsvars, ghostvars, message_queue,
                             ws, open, dpc>>
              /\ UNCHANGED <<alive, heap, breakpoints, breakpoints_by_file,
                             hits, sinceInstall, cmdBudget, lineBudget>>
    /\ UNCHANGED <<started, enable_breakpoints, sampling_rate,
                   boot_excepthook, boot_unraisablehook, trail, handed,
                   capturevars, facadevars, racevars>>

(* ------------- AIVoryAgent.stop, one component at a time ---------------- *)
\* AIVoryAgent.stop, lines 56-60, and _cleanup, lines 77-78, on the main
\* thread: the test of _started and trace_manager.disable()
CleanupDisable ==
    /\ spc = "idle"
    /\ Called("stop")
    /\ IF ~started
         THEN UNCHANGED <<tracevars, hooktracevars, spc>>
         ELSE /\ spc' = "cleanup"
              /\ IF enable_breakpoints /\ enabled
                   THEN /\ enabled' = FALSE
                        /\ hooked' = hooked \ {MainThread}
                        /\ breakpoints' = [id \in BreakpointIds |-> 0]
                        /\ breakpoints_by_file' = <<>>
                        /\ sinceInstall' = [id \in BreakpointIds |-> 0]
                        /\ sys_trace' = original_trace
                        /\ original_trace' = NoTrace
                   ELSE UNCHANGED <<enabled, hooked, breakpoints,
                                    breakpoints_by_file, sinceInstall,
                                    hooktracevars>>
              /\ UNCHANGED <<alive, heap, hits, cmdBudget, lineBudget>>
    /\ UNCHANGED <<started, launched, enable_breakpoints, sampling_rate,
                   hookvars, boot_excepthook, boot_unraisablehook, trail,
                   handed, escapes, transportvars, capturevars, facadevars,
                   boot_trace, cb, cb_result>>

\* _cleanup, lines 80-81, and stop, line 62: uninstall(), disconnect(),
\* self._started = False; stop returns
CleanupFinish ==
    /\ spc = "cleanup"
    /\ spc' = "idle"
    /\ UninstallHooks
    /\ shutdown' = TRUE
    /\ connected' = FALSE
    /\ authenticated' = FALSE
    /\ open' = open \ {ws}
    /\ started' = FALSE
    /\ UNCHANGED <<launched, workervars, sendervars, obsvars, ghostvars,
                   message_queue, ws, dpc, tracevars, enable_breakpoints,
                   sampling_rate, boot_excepthook, boot_unraisablehook, trail,
                   handed, escapes, lastCall, callBudget, capturevars,
                   facadevars, hooktracevars, boot_trace, cb, cb_result>>

\* connection.py lines 187-188, 228-229 and 266-269, trace_manager.py lines
\* 117-125: the worker receives a set_breakpoint frame and calls the trace
\* manager's handler
WorkerSetBreakpoint(id, path, line) ==
    /\ launched > 0
    /\ wpc = "recv"
    /\ ~shutdown
    /\ ws \in open
    /\ enable_breakpoints
    /\ SetBreakpoint(id, path, line, "none", 1)

(* ------------------------------- Init --------------------------------- *)
\* AgentConfig.__post_init__, lines 48-56: the defaults
DefaultMaxCaptureDepth == 10
DefaultMaxStringLength == 1000
DefaultMaxCollectionSize == 100

\* no capture is made: the configuration has its defaults
CaptureIdle ==
    /\ max_capture_depth = DefaultMaxCaptureDepth
    /\ max_string_length = DefaultMaxStringLength
    /\ max_collection_size = DefaultMaxCollectionSize
    /\ exception = [type |-> "KeyError", message |-> "b",
                    traceback |-> <<TracebackStep("f", 1, FALSE)>>]
    /\ f_locals = <<>>
    /\ capture = NoCapture

\* init() is not called: the agent is built with an api key
FacadeIdle ==
    /\ environ = [api_key |-> "set", max_depth |-> "unset"]
    /\ initialized = FALSE
    /\ init_result = "none"

\* no _trace_callback call and no _cleanup call is in progress
CallsIdle ==
    /\ cb = NoCallback
    /\ cb_result = "none"
    /\ spc = "idle"

\* the main thread has no trace function when the trace manager is built
TraceHookIdle ==
    /\ original_trace = NoTrace
    /\ sys_trace = NoTrace
    /\ boot_trace = NoTrace
    /\ CallsIdle

\* BackendConnection.__init__ followed by connect(): the worker has started
InitConnection ==
    /\ connected = FALSE
    /\ authenticated = FALSE
    /\ shutdown = FALSE
    /\ reconnect_attempts = 0
    /\ max_reconnect_attempts = InitialMaxReconnectAttempts
    /\ ws = 0
    /\ open = {}
    /\ nconn = 0
    /\ wpc = "loop"
    /\ wheld = NoFrame
    /\ delay = 0
    /\ dpc = "idle"
    /\ errlog = "none"
    /\ wire = <<>>
    /\ hi = [t \in AppThreads |-> 0]
    /\ misordered = FALSE
    /\ rxCount = 0
    /\ era = 0
    /\ backlog = {}
    /\ overlap = FALSE
    /\ lateSubs = {}
    /\ failStreak = 0

\* The first application thread has submitted n frames through _send while
\* the worker was still connecting: they are queued in submission order.
Preloaded(n, apps) ==
    /\ message_queue = [i \in 1..n |-> Frame(App1, i, 0)]
    /\ threads = [t \in apps |->
                    IF t = App1
                      THEN [NewThread("idle") EXCEPT
                              !.nsub = n,
                              !.msg = IF n = 0 THEN NoFrame
                                      ELSE Frame(t, n, 0)]
                      ELSE NewThread("idle")]

\* TraceManager.__init__, lines 42-52
InitTraceManager ==
    /\ enabled = FALSE
    /\ alive = {MainThread}
    /\ hooked = {}
    /\ heap = <<>>
    /\ breakpoints = [id \in BreakpointIds |-> 0]
    /\ breakpoints_by_file = <<>>
    /\ hits = <<>>
    /\ sinceInstall = [id \in BreakpointIds |-> 0]

\* no breakpoint command and no line event arrives
TraceManagerIdle ==
    /\ InitTraceManager
    /\ cmdBudget = 0
    /\ lineBudget = 0

\* The handler and the agent exist but are not used: connect() and enable()
\* are called on the components directly.  connect() has started one worker.
AgentIdle ==
    /\ started = FALSE
    /\ launched = 1
    /\ enable_breakpoints = TRUE
    /\ sampling_rate = 100
    /\ installed = FALSE
    /\ original_excepthook = NoHook
    /\ original_unraisablehook = NoHook
    /\ sys_excepthook = "default"
    /\ sys_unraisablehook = "default"
    /\ boot_excepthook = "default"
    /\ boot_unraisablehook = "default"
    /\ trail = NoTrail
    /\ handed = 0
    /\ escapes = 0
    /\ lastCall = "none"
    /\ callBudget = 0

\* ExceptionHandler.__init__, lines 22-28, in a process whose two hook slots
\* hold the interpreter's hooks or hooks of the application
InitExceptionHandler ==
    /\ installed = FALSE
    /\ original_excepthook = NoHook
    /\ original_unraisablehook = NoHook
    /\ sys_excepthook \in BootHooks
    /\ sys_unraisablehook \in BootHooks
    /\ boot_excepthook = sys_excepthook
    /\ boot_unraisablehook = sys_unraisablehook
    /\ trail = NoTrail
    /\ handed = 0
    /\ escapes = 0
    /\ lastCall = "none"

\* BackendConnection.__init__ and TraceManager.__init__ without connect():
\* no worker thread yet, wpc is where the first one will begin
InitComponents ==
    /\ InitConnection
    /\ Preloaded(0, {App1})
    /\ frameBudget = 0
    /\ logWire = TRUE
    /\ okBudget = 0
    /\ failBudget = 0
    /\ TraceManagerIdle
    /\ CaptureIdle
    /\ launched = 0

\* nothing has been submitted yet
Init ==
    /\ InitConnection
    /\ Preloaded(0, {App1})
    /\ frameBudget = MaxFrames
    /\ logWire = TRUE
    /\ AgentIdle
    /\ CaptureIdle
    /\ FacadeIdle
    /\ TraceHookIdle
    /\ okBudget = MaxConns
    /\ failBudget = MaxFails
    /\ TraceManagerIdle

InitAuth ==
    /\ InitConnection
    /\ Preloaded(0, {App1})
    /\ frameBudget = MaxFramesAuth
    /\ logWire = TRUE
    /\ AgentIdle
    /\ CaptureIdle
    /\ FacadeIdle
    /\ TraceHookIdle
    /\ okBudget = MaxConnsAuth
    /\ failBudget = MaxFailsAuth
    /\ TraceManagerIdle

\* no frame is submitted; the environment refuses or drops channels
InitBackoff ==
    /\ InitConnection
    /\ Preloaded(0, {App1})
    /\ frameBudget = 0
    /\ logWire = TRUE
    /\ AgentIdle
    /\ CaptureIdle
    /\ FacadeIdle
    /\ TraceHookIdle
    /\ okBudget = MaxConnsBackoff
    /\ failBudget = MaxFailsBackoff
    /\ TraceManagerIdle

\* the queue has been filled to its capacity before the first handshake
InitQueue ==
    /\ InitConnection
    /\ Preloaded(maxsize, {App1})
    /\ frameBudget = MaxFramesQueue
    /\ logWire = FALSE
    /\ AgentIdle
    /\ CaptureIdle
    /\ FacadeIdle
    /\ TraceHookIdle
    /\ okBudget = MaxConnsQueue
    /\ failBudget = 0
    /\ TraceManagerIdle

\* Channel 1 was opened and registered while the queue was empty, and then
\* died without the worker noticing yet (the worker is in its receive loop,
\* the flags are still set).  The first application thread has since called
\* _send maxsize times: each direct send failed and queued its frame.
InitStalled ==
    /\ connected = TRUE
    /\ authenticated = TRUE
    /\ shutdown = FALSE
    /\ reconnect_attempts = 0
    /\ max_reconnect_attempts = InitialMaxReconnectAttempts
    /\ ws = 1
    /\ open = {}
    /\ nconn = 1
    /\ wpc = "recv"
    /\ wheld = NoFrame
    /\ delay = 0
    /\ dpc = "idle"
    /\ errlog = "none"
    /\ wire = <<[c |-> 1, f |-> RegisterFrame(1)]>>
    /\ hi = [t \in AppThreads |-> 0]
    /\ misordered = FALSE
    /\ rxCount = 0
    /\ era = 1
    /\ backlog = {}
    /\ overlap = TRUE
    /\ lateSubs = {}
    /\ failStreak = 0
    /\ message_queue = [i \in 1..maxsize |-> Frame(App1, i, 1)]
    /\ threads = (App1 :> [NewThread("idle") EXCEPT
                             !.nsub = maxsize,
                             !.msg = Frame(App1, maxsize, 1)])
                 @@ (App2 :> NewThread("idle"))
                 @@ (Heartbeat(1) :> NewThread("hb_loop"))
    /\ frameBudget = MaxFramesStalled
    /\ logWire = TRUE
    /\ AgentIdle
    /\ CaptureIdle
    /\ FacadeIdle
    /\ TraceHookIdle
    /\ okBudget = 0
    /\ failBudget = 0
    /\ TraceManagerIdle

\* the tracer alone: the transport stays as constructed
InitTrace ==
    /\ InitConnection
    /\ Preloaded(0, {App1})
    /\ frameBudget = 0
    /\ logWire = TRUE
    /\ AgentIdle
    /\ CaptureIdle
    /\ FacadeIdle
    /\ TraceHookIdle
    /\ okBudget = 0
    /\ failBudget = 0
    /\ InitTraceManager
    /\ cmdBudget = MaxCommands
    /\ lineBudget = MaxLineEvents

(* ========================== specifications ============================ *)
WorkerConnection ==
    \/ WorkerLoop
    \/ WorkerConnectOk
    \/ WorkerAuthenticate
    \/ WorkerRecvEnd
    \/ \E m \in Inbound : WorkerRecvMessage(m)
    \/ WorkerFlushGet
    \/ WorkerErrDisconnect
    \/ WorkerErrClose
    \/ WorkerLeave
    \/ WorkerAfter

Sender(t) ==
    \/ SendBegin(t)
    \/ SendDirect(t)
    \/ SendFlushGet(t)
    \/ SendFlushSend(t)
    \/ SendPut(t)

SenderOverflow(t) ==
    \/ SendDropOldest(t)
    \/ SendPutAgain(t)

\* One worker, one application thread, the heartbeat workers, the
\* application's disconnect() and the backend.  The queue cannot fill within
\* MaxFrames, so the overflow steps of _send are left to SpecQueue.
Next ==
    \/ WorkerConnection
    \/ WorkerConnectFail
    \/ WorkerFlushSend
    \/ \E t \in DOMAIN threads : Sender(t)
    \/ \E h \in DOMAIN threads : HeartbeatLoop(h)
    \/ Disconnect
    \/ DisconnectClose
    \/ \E c \in open : PeerClose(c)

Spec == Init /\ [][Next]_vars

SpecAuth == InitAuth /\ [][Next]_vars

\* The connection loop alone: nothing is submitted, so the queue stays empty.
NextBackoff ==
    \/ WorkerConnection
    \/ WorkerConnectFail
    \/ \E h \in DOMAIN threads : HeartbeatLoop(h)
    \/ Disconnect
    \/ DisconnectClose
    \/ \E c \in open : PeerClose(c)

SpecBackoff == InitBackoff /\ [][NextBackoff]_vars

\* A full queue, drained by the worker and by the senders over a channel
\* that stays up.
NextQueue ==
    \/ WorkerLoop
    \/ WorkerConnectOk
    \/ WorkerAuthenticate
    \/ WorkerRecvMessage(Registered)
    \/ WorkerFlushGet
    \/ WorkerFlushSend
    \/ \E t \in DOMAIN threads : Sender(t) \/ SenderOverflow(t)
    \/ \E h \in DOMAIN threads : HeartbeatLoop(h)

SpecQueue == InitQueue /\ [][NextQueue]_vars

\* A full queue behind a dead channel: two application threads and the
\* heartbeat worker submit frames until the worker notices.
NextStalled ==
    \/ WorkerRecvEnd
    \/ WorkerLeave
    \/ WorkerAfter
    \/ WorkerLoop
    \/ \E t \in DOMAIN threads : Sender(t) \/ SenderOverflow(t)
    \/ \E h \in DOMAIN threads : HeartbeatLoop(h)

SpecStalled == InitStalled /\ [][NextStalled]_vars

\* Breakpoint commands from the backend and line events of the traced thread
NextTrace ==
    \/ Enable
    \/ Disable
    \/ \E id \in BreakpointIds, path \in BreakpointPaths, line \in Lines,
         cond \in Conditions, max_hits \in RequestedMaxHits :
           SetBreakpoint(id, path, line, cond, max_hits)
    \/ \E id \in BreakpointIds : RemoveBreakpoint(id)
    \/ \E path \in CodePaths, line \in Lines, r \in EvalResults :
           LineEvent(MainThread, path, line, r)

SpecTrace == InitTrace /\ [][NextTrace]_vars

(* ============================= properties ============================= *)
\* no _send call and no worker flush is in progress and the queue is empty
Drained ==
    /\ authenticated
    /\ QueueEmpty(message_queue)
    /\ wpc = "recv"
    /\ \A t \in DOMAIN threads : threads[t].pc \in {"idle", "hb_loop", "exited"}

\* C1: when K > 100 frames have been submitted by an application thread
\* before the handshake and none after it, the channel accepts application
\* frames in submission order, only frames among the last 100 submitted,
\* and, once everything is drained, exactly 100 of them ending with the K-th.
C1_LastHundredInOrder ==
    (~overlap /\ threads[App1].nsub > maxsize) =>
        /\ ~misordered
        /\ hi[App1] # 0 => hi[App1] > threads[App1].nsub - maxsize
        /\ Drained => (rxCount = maxsize /\ hi[App1] = threads[App1].nsub)

\* C2: the offline queue never holds more than 100 frames.
C2_QueueBounded == Len(message_queue) <= 100

\* The application thread has found the queue full while the worker is about
\* to drain it.
C2_Witness ==
    /\ Len(message_queue) = maxsize
    /\ threads[App1].pc = "drop"
    /\ wpc = "flush"

\* C3: a frame other than `register` is accepted by the channel only in a
\* step taken while the transport is AUTHENTICATED, and a _send call that
\* found the transport in another state writes nothing.
C3_WrittenOnlyWhileAuthenticated ==
    [][/\ (wire' # wire /\ TypeOf(Last(wire').f) # "register")
            => is_connected
       /\ \A t \in DOMAIN threads :
            (threads[t].path = "offline" /\ threads'[t] # threads[t])
              => wire' = wire]_vars

\* C4: a frame submitted after the latest transition to AUTHENTICATED is
\* accepted by the channel only when every frame that was queued at that
\* transition has been accepted.
C4_BacklogBeforeNewFrames ==
    [][(/\ wire' # wire
        /\ Last(wire').f.src # WorkerId
        /\ era > 0
        /\ Last(wire').f.era = era)
          => backlog = {}]_vars

\* C5: the frames of one application thread appear on the wire in the order
\* in which that thread submitted them.
C5_PerThreadOrder ==
    \A i, j \in 1..Len(wire) :
        (i < j /\ IsApp(wire[i].f.src) /\ wire[i].f.src = wire[j].f.src)
          => wire[i].f.n <= wire[j].f.n

\* C6: when a _send call whose direct transmission failed returns, its frame
\* is in the offline queue.
C6_FailedSendIsQueued ==
    [][\A t \in DOMAIN threads :
          (threads[t].path = "direct_failed" /\ threads'[t].path = "none")
            => threads[t].msg \in Range(message_queue')]_vars

\* the delay the backoff rule prescribes after the i-th failure
ExpectedDelay(i) == Min(Pow2(i - 1), 60)

\* C7 (as stated): after the i-th consecutive failure, for every i in 1..10,
\* the worker waits min(2^(i-1), 60) seconds before the next attempt.
C7_DelayUpToTenth ==
    [][(reconnect_attempts' = reconnect_attempts + 1
        /\ reconnect_attempts' \in 1..10)
          => (wpc' = "loop" /\ delay' = ExpectedDelay(reconnect_attempts'))]_vars

\* C7 (amended): after the i-th consecutive failure the worker waits
\* min(2^(i-1), 60) seconds for i in 1..9; after the 10th it computes no
\* delay and exits.
C7_DelayUpToNinth ==
    [][(reconnect_attempts' = reconnect_attempts + 1)
          => IF reconnect_attempts' \in 1..9
               THEN wpc' = "loop" /\ delay' = ExpectedDelay(reconnect_attempts')
               ELSE reconnect_attempts' = 10 /\ wpc' = "exited"
                    /\ delay' = delay]_vars

\* The worker waits 60 seconds after the ninth consecutive failure.
C7_Witness ==
    /\ wpc = "loop"
    /\ reconnect_attempts = 9
    /\ failStreak = 9
    /\ delay = 60

\* C8: the worker never makes more than 10 consecutive failed attempts, and
\* after the 10th it is leaving or has left its loop: it is never again at a
\* connection attempt.
C8_AtMostTenAttempts ==
    /\ failStreak <= 10
    /\ failStreak = 10 => wpc \in {"after", "exited"}

\* The worker has exited after ten failures in a row, without a shutdown.
C8_Witness ==
    /\ failStreak = 10
    /\ wpc = "exited"
    /\ ~shutdown

\* C9: once an `error` frame with code auth_error or invalid_api_key has
\* been handled, the transport stays closed, no connection is attempted,
\* and every frame submitted afterwards takes the offline branch of _send,
\* is put into the queue by that call and is never on the wire.
C9_AuthErrorIsFatal ==
    /\ [](AuthErrorHandled =>
            /\ shutdown /\ ~is_connected
            /\ wpc \notin {"connect", "auth"}
            /\ \A f \in lateSubs :
                 /\ \A i \in 1..Len(wire) : wire[i].f # f
                 /\ \A t \in DOMAIN threads :
                      threads[t].msg = f
                        => threads[t].path \in {"offline", "none"})
    /\ [][AuthErrorHandled =>
            /\ nconn' = nconn /\ okBudget' = okBudget
            /\ failBudget' = failBudget
            /\ \A t \in DOMAIN threads :
                 (/\ threads[t].msg \in lateSubs
                  /\ threads[t].pc = "put"
                  /\ threads'[t].pc # "put")
                   => threads[t].msg \in Range(message_queue')]_vars

\* A frame submitted after the authentication error sits in the queue and
\* the worker has exited.
C9_Witness ==
    /\ AuthErrorHandled
    /\ wpc = "exited"
    /\ \E f \in lateSubs : f \in Range(message_queue)
    /\ \A t \in DOMAIN threads : threads[t].pc \in {"idle", "hb_loop", "exited"}

\* C10: for every installed backend_id, the breakpoint_hit frames emitted
\* since its latest installation number at most the clamped max_hits of that
\* installation, and its hit_count does not exceed it.
C10_AtMostMaxHits ==
    \A id \in BreakpointIds :
        breakpoints[id] # 0 =>
            /\ sinceInstall[id] <= heap[breakpoints[id]].max_hits
            /\ heap[breakpoints[id]].hit_count <= heap[breakpoints[id]].max_hits

\* C11: installing a backend_id that is already installed replaces the old
\* breakpoint: every breakpoint_hit emitted for an installed id carries the
\* file and line of its latest definition, and one line crossing emits at
\* most one breakpoint_hit for an id.
C11_ReinstallReplaces ==
    [][\A id \in BreakpointIds :
          /\ sinceInstall'[id] <= sinceInstall[id] + 1
          /\ \A i \in (Len(hits) + 1)..Len(hits') :
                (hits'[i].id = id /\ breakpoints[id] # 0)
                  => /\ hits'[i].file_path = heap[breakpoints[id]].file_path
                     /\ hits'[i].line_number
                          = heap[breakpoints[id]].line_number]_vars

(* ----------------- removal after repeated installation ---------------- *)
\* SpecRemove: commands and line events of the tracer
MaxCommandsRemove == 3
MaxLineEventsRemove == 1

InitRemove ==
    /\ InitConnection
    /\ Preloaded(0, {App1})
    /\ frameBudget = 0
    /\ logWire = TRUE
    /\ AgentIdle
    /\ CaptureIdle
    /\ FacadeIdle
    /\ TraceHookIdle
    /\ okBudget = 0
    /\ failBudget = 0
    /\ InitTraceManager
    /\ cmdBudget = MaxCommandsRemove
    /\ lineBudget = MaxLineEventsRemove

\* Unconditional breakpoints with max_hits = 1, installed and removed in any
\* order, and line events of the main thread
NextRemove ==
    \/ Enable
    \/ Disable
    \/ \E id \in BreakpointIds, path \in BreakpointPaths, line \in Lines :
           SetBreakpoint(id, path, line, "none", 1)
    \/ \E id \in BreakpointIds : RemoveBreakpoint(id)
    \/ \E path \in CodePaths, line \in Lines :
           LineEvent(MainThread, path, line, "true")

SpecRemove == InitRemove /\ [][NextRemove]_vars

\* backend_id `id` labels no object listed in self._breakpoints_by_file
NotListed(byfile, h, id) ==
    \A k \in 1..Len(byfile) :
        \A j \in 1..Len(byfile[k].bps) : h[byfile[k].bps[j]].backend_id # id

\* C12: when remove_breakpoint(id) has been processed, id is in neither
\* index; and no breakpoint_hit is emitted for an id that is not installed.
C12_RemovedIsGone ==
    [][/\ \A id \in BreakpointIds :
            RemoveBreakpoint(id)
              => (breakpoints'[id] = 0
                  /\ NotListed(breakpoints_by_file', heap', id))
       /\ \A i \in (Len(hits) + 1)..Len(hits') :
            breakpoints[hits'[i].id] # 0]_vars

\* the rule of the breakpoint path match: equal, or one a suffix of the other
PathsMatch(p, q) == p = q \/ EndsWith(p, q) \/ EndsWith(q, p)

\* C13: on a line event at path Q, line L, an installed breakpoint at line L
\* without condition and with budget left emits a hit iff its normalized
\* path and the normalized Q are equal or one is a suffix of the other,
\* whatever else is installed.
C13_HitIffPathsMatch ==
    [][\A path \in CodePaths, line \in Lines :
          LineEvent(MainThread, path, line, "true") =>
            \A id \in BreakpointIds :
              LET ref == breakpoints[id] IN
                (/\ ref # 0
                 /\ heap[ref].condition = "none"
                 /\ heap[ref].hit_count < heap[ref].max_hits
                 /\ heap[ref].line_number = line)
                  => ((heap'[ref].hit_count = heap[ref].hit_count + 1)
                        <=> PathsMatch(heap[ref].normalized_path,
                                       NormalizedPath(path)))]_vars

\* C14: a crossing whose condition raises or is not true emits no hit for a
\* conditional breakpoint and leaves its hit_count unchanged; and the k-th
\* breakpoint_hit emitted for an installed id since its installation
\* carries hit_count = k.
C14_ConditionGuardsBudget ==
    [][\A path \in CodePaths, line \in Lines, r \in EvalResults :
          LineEvent(MainThread, path, line, r) =>
            /\ r # "true" =>
                 /\ \A ref \in 1..Len(heap) :
                      heap[ref].condition # "none"
                        => heap'[ref].hit_count = heap[ref].hit_count
                 /\ \A i \in (Len(hits) + 1)..Len(hits') :
                      \E ref \in 1..Len(heap) :
                        /\ heap[ref].backend_id = hits'[i].id
                        /\ heap[ref].condition = "none"
            /\ \A i \in (Len(hits) + 1)..Len(hits') :
                 breakpoints[hits'[i].id] # 0 =>
                   hits'[i].hit_count =
                     sinceInstall[hits'[i].id]
                       + Cardinality({j \in (Len(hits) + 1)..i :
                                        hits'[j].id = hits'[i].id})]_vars

(* ------------------------ threads and the hook ------------------------ *)
\* SpecThreads: commands and line events of the tracer
MaxCommandsThreads == 2
MaxLineEventsThreads == 2

InitThreads ==
    /\ InitConnection
    /\ Preloaded(0, {App1})
    /\ frameBudget = 0
    /\ logWire = TRUE
    /\ AgentIdle
    /\ CaptureIdle
    /\ FacadeIdle
    /\ TraceHookIdle
    /\ okBudget = 0
    /\ failBudget = 0
    /\ InitTraceManager
    /\ cmdBudget = MaxCommandsThreads
    /\ lineBudget = MaxLineEventsThreads

\* The application starts threads before and after enable(); every running
\* thread executes lines of the traced files.
NextThreads ==
    \/ Enable
    \/ Disable
    \/ \E t \in OtherThreads : Spawn(t)
    \/ \E id \in BreakpointIds, line \in Lines :
           SetBreakpoint(id, <<"b">>, line, "none", 2)
    \/ \E t \in {MainThread} \cup OtherThreads, path \in CodePaths,
         line \in Lines : LineEvent(t, path, line, "true")
    \/ \E t \in OtherThreads : LineSkipped(t)

SpecThreads == InitThreads /\ [][NextThreads]_vars

\* C15: while the trace engine is enabled, the trace callback is the trace
\* function of every running application thread.
C15_HookOnEveryThread == enabled => alive \subseteq hooked


(* ===================== the exception hook (SpecHooks) ================== *)
MaxCallsHooks == 3

InitHooks ==
    /\ InitComponents
    /\ FacadeIdle
    /\ TraceHookIdle
    /\ InitExceptionHandler
    /\ started = FALSE
    /\ enable_breakpoints = TRUE
    /\ sampling_rate \in SamplingRates
    /\ callBudget = MaxCallsHooks

\* install() and uninstall() called on the handler in any order, failures
\* delivered to whatever hook is in the slot, and manual captures
NextHooks ==
    \/ Install
    \/ Uninstall
    \/ \E fail \in Failures, draw \in Draws : Excepthook(fail, draw)
    \/ \E has_value \in BOOLEAN, fail \in Failures, draw \in Draws :
         Unraisablehook(has_value, fail, draw)
    \/ \E fail \in Failures, draw \in Draws : Capture(fail, draw)

SpecHooks == InitHooks /\ [][NextHooks]_vars

\* C16: install after install changes nothing and the saved previous hook is
\* never the agent's own hook; uninstall after uninstall changes nothing;
\* while installed both slots hold the agent's hook and the saved hooks are
\* the ones that were active before; when not installed both slots hold the
\* hooks that were active before install.
C16_InstallUninstallIdempotent ==
    /\ [](/\ original_excepthook # AgentHook
          /\ original_unraisablehook # AgentHook)
    /\ [](installed =>
            /\ sys_excepthook = AgentHook
            /\ sys_unraisablehook = AgentHook
            /\ original_excepthook = boot_excepthook
            /\ original_unraisablehook = boot_unraisablehook)
    /\ [](~installed =>
            /\ sys_excepthook = boot_excepthook
            /\ sys_unraisablehook = boot_unraisablehook)
    /\ [][((Install /\ installed) \/ (Uninstall /\ ~installed))
            => UNCHANGED hookvars]_vars

\* three install/uninstall calls, the last an uninstall that put the
\* application's hook back into the uncaught slot and the interpreter's hook
\* back into the unraisable slot
C16_Witness ==
    /\ callBudget = 0
    /\ trail = NoTrail
    /\ lastCall = "uninstall"
    /\ ~installed
    /\ original_excepthook = "user"
    /\ sys_excepthook = "user"
    /\ original_unraisablehook = "default"
    /\ sys_unraisablehook = "default"


\* C17: whatever the agent's hook did with an uncaught or unraisable failure
\* (sampled it out, found no exception value, handed the capture over, or
\* failed while building or serializing it), it then called the saved
\* previous hook exactly once, as its last step, and nothing was raised out
\* of the hook.
C17_PreviousHookOnceAfterOwnWork ==
    trail.call \in {"excepthook", "unraisablehook"} =>
        /\ Count(trail.did, "previous") = 1
        /\ trail.did[Len(trail.did)] = "previous"
        /\ Count(trail.did, "raised") = 0

\* an unraisable failure whose capture could not be serialized: swallowed,
\* then the previous hook
C17_Witness ==
    /\ trail.call = "unraisablehook"
    /\ trail.fail = "serialize"
    /\ trail.did = <<"handed", "swallowed", "previous">>


\* C18: a manual capture (ExceptionHandler.capture, AIVoryAgent
\* .capture_exception) never raises into the caller: a failure while the
\* capture is built or serialized is swallowed.
C18_ManualCaptureNeverRaises ==
    trail.call \in {"capture", "capture_exception"} =>
        Count(trail.did, "raised") = 0


\* C19: with sampling_rate >= 1.0 no hook event and no manual capture is
\* sampled out, whatever the draw: every one that carries an exception and
\* whose capture could be built is handed to the transport; with
\* sampling_rate <= 0.0 nothing is ever handed to the transport.
C19_SamplingShortcuts ==
    /\ sampling_rate >= 100 =>
         /\ Count(trail.did, "sampled_out") = 0
         /\ (trail.call # "none" /\ trail.value /\ trail.fail # "build")
              => Count(trail.did, "handed") = 1
    /\ sampling_rate <= 0 =>
         /\ handed = 0
         /\ trail.call # "none" => trail.did[1] = "sampled_out"

\* at rate 1.0 the hook has been installed and two uncaught failures have
\* both been handed over
C19_Witness ==
    /\ sampling_rate = 100
    /\ trail.call = "excepthook"
    /\ handed = 2
    /\ callBudget = 0


(* ================= the agent's life cycle (SpecAgent) ================= *)
MaxCallsAgent == 4

\* AIVoryAgent.__init__, lines 22-29: the components are built, nothing is
\* started.  The backend accepts every handshake of the worker.
InitAgent ==
    /\ InitConnection
    /\ Preloaded(0, {App1})
    /\ frameBudget = 0
    /\ logWire = TRUE
    /\ okBudget = MaxCallsAgent + 1
    /\ failBudget = 0
    /\ TraceManagerIdle
    /\ CaptureIdle
    /\ launched = 0
    /\ FacadeIdle
    /\ TraceHookIdle
    /\ InitExceptionHandler
    /\ started = FALSE
    /\ enable_breakpoints \in BOOLEAN
    /\ sampling_rate = 100
    /\ callBudget = MaxCallsAgent

\* the steps of the newest worker thread once connect() has started one
WorkerOfAgent ==
    /\ launched > 0
    /\ \/ WorkerLoop
       \/ WorkerConnectOk
       \/ WorkerAuthenticate
       \/ WorkerRecvEnd
       \/ WorkerRecvMessage(Registered)
       \/ WorkerFlushGet
       \/ WorkerLeave
       \/ WorkerAfter

\* start(), stop() and capture_exception() called in any order on the main
\* thread, uncaught failures, the worker and its heartbeat workers
NextAgent ==
    \/ AgentStart
    \/ AgentStop
    \/ \E fail \in Failures, draw \in Draws : CaptureException(fail, draw)
    \/ \E fail \in Failures, draw \in Draws : Excepthook(fail, draw)
    \/ WorkerOfAgent
    \/ \E h \in DOMAIN threads : IsHb(h) /\ HeartbeatLoop(h)

\* every thread that can take a step eventually takes one
SpecAgent == InitAgent /\ [][NextAgent]_vars /\ WF_vars(WorkerOfAgent)

\* a worker thread started by connect() is inside _connection_loop
WorkerRunning == launched > 0 /\ wpc # "exited"

MaxTextLen == 3
MaxWidth == 4
MaxNesting == 4

CaptureDepths == {0, 1, 2}
StringLengths == {1, 2}
CollectionSizes == {1, 2, 3}

NoneV == Value("NoneType", <<>>, <<>>, FALSE)
IntV == Value("int", <<"7">>, <<>>, FALSE)
FunctionV == Value("function", <<>>, <<>>, FALSE)
StrV(n) == Value("str", [i \in 1..n |-> "a"], <<>>, FALSE)
BytesV(n) == Value("bytes", [i \in 1..n |-> IF i = 1 THEN "7f" ELSE "ff"],
                   <<>>, FALSE)
\* a dict subclass whose __len__ raises
HostileV == Value("dict", <<>>, <<>>, TRUE)

Leaves ==
    {NoneV, IntV, FunctionV}
      \cup {StrV(n) : n \in 0..MaxTextLen}
      \cup {BytesV(n) : n \in 0..MaxTextLen}

CompositeKinds == {"list", "tuple", "set", "dict", "Obj"}

\* How the members of a composite look:
\*   plain      integers under ordinary names
\*   callable   the second member is a function
\*   hidden     the first key or attribute name begins with '_'
\*   colliding  the first two keys are 1 and '1'
\*   hostile    the second member is a value whose len() raises
\*   raising    producing the second member raises
Patterns == {"plain", "callable", "hidden", "colliding", "hostile", "raising"}

MemberKey(kind, pat, i) ==
    IF kind \notin {"dict", "Obj"} THEN NoKey
    ELSE IF pat = "hidden" /\ i = 1 THEN Key("str", <<"_", "k">>)
    ELSE IF pat = "colliding" /\ kind = "dict" /\ i = 1
      THEN Key("int", <<"1">>)
    ELSE IF pat = "colliding" /\ kind = "dict" /\ i = 2
      THEN Key("str", <<"1">>)
    ELSE Key("str", <<"k", ToString(i)>>)

MemberValue(pat, i) ==
    IF pat = "callable" /\ i = 2 THEN FunctionV
    ELSE IF pat = "hostile" /\ i = 2 THEN HostileV
    ELSE IntV

Composite(kind, n, pat) ==
    Value(kind, <<>>,
          [i \in 1..n |-> Item(MemberKey(kind, pat, i), MemberValue(pat, i),
                               pat = "raising" /\ i = 2)],
          FALSE)

Wide == {Composite(kind, n, pat) :
           kind \in CompositeKinds, n \in 0..MaxWidth, pat \in Patterns}

\* composites nested in one another, each next to an integer
RECURSIVE Nested(_, _)
Nested(kinds, leaf) ==
    IF kinds = <<>> THEN leaf
    ELSE Value(Head(kinds), <<>>,
               <<Item(MemberKey(Head(kinds), "plain", 1), IntV, FALSE),
                 Item(MemberKey(Head(kinds), "plain", 2),
                      Nested(Tail(kinds), leaf), FALSE)>>,
               FALSE)

NestingKinds == {"list", "dict", "Obj"}
Deep == UNION {{Nested(kinds, leaf) :
                  kinds \in [1..n -> NestingKinds],
                  leaf \in {NoneV, IntV, HostileV}} : n \in 1..MaxNesting}

\* the frame has the local x, a private local and the local y
Local(name, value) == [name |-> name, value |-> value]
FrameLocals(v) ==
    <<Local(<<"x">>, v), Local(<<"_", "h">>, IntV), Local(<<"y">>, IntV)>>

InitCapture ==
    /\ InitConnection
    /\ Preloaded(0, {App1})
    /\ frameBudget = 0
    /\ logWire = TRUE
    /\ okBudget = 0
    /\ failBudget = 0
    /\ TraceManagerIdle
    /\ AgentIdle
    /\ FacadeIdle
    /\ TraceHookIdle
    /\ max_capture_depth \in CaptureDepths
    /\ max_string_length \in StringLengths
    /\ max_collection_size \in CollectionSizes
    /\ exception = [type |-> "KeyError", message |-> "b",
                    traceback |-> <<TracebackStep("f", 1, FALSE)>>]
    /\ f_locals \in {FrameLocals(v) : v \in Leaves \cup Wide \cup Deep}
    /\ capture = NoCapture

NextCapture ==
    \/ BuilderCapture
    \/ TracerCaptureLocals

SpecCapture == InitCapture /\ [][NextCapture]_vars


\* the nodes of a CapturedVariable tree with their depth (the root has 0)
RECURSIVE NodesAt(_, _)
NodesAt(node, depth) ==
    {[node |-> node, depth |-> depth]}
      \cup UNION {NodesAt(node.children[i], depth + 1) :
                    i \in DOMAIN node.children}
      \cup UNION {NodesAt(node.array_elements[i], depth + 1) :
                    i \in DOMAIN node.array_elements}

\* every node of a locals snapshot
SnapshotNodes ==
    UNION {NodesAt(capture.local_variables[i], 0) :
             i \in DOMAIN capture.local_variables}

IsDepthLeaf(node) ==
    /\ node.value = MaxDepthExceeded
    /\ node.is_truncated
    /\ node.children = <<>>
    /\ node.array_elements = <<>>

\* C21: in every captured tree no node lies deeper than max_capture_depth + 1
\* and every node at that depth is the '<max depth exceeded>' leaf with
\* is_truncated set.
C21_DepthBounded ==
    \A n \in SnapshotNodes :
        /\ n.depth <= max_capture_depth + 1
        /\ n.depth = max_capture_depth + 1 => IsDepthLeaf(n.node)

\* a value nested four deep was captured with depth limit 1: the tree ends
\* with the leaf at depth 2
C21_Witness ==
    /\ capture.by = "builder"
    /\ max_capture_depth = 1
    /\ f_locals[1].value = Nested(<<"list", "dict", "Obj", "list">>, IntV)
    /\ \E n \in SnapshotNodes : n.depth = 2 /\ IsDepthLeaf(n.node)


\* C22: a list, tuple, set, dict or object with more than
\* max_collection_size members (here: integers under ordinary names) is
\* captured with exactly max_collection_size children and is_truncated set,
\* and a list, tuple or set records its original length in array_length.
C22_FanOutTruncated ==
    capture.by = "builder" =>
        \A kind \in CompositeKinds, n \in 0..MaxWidth :
            (n > max_collection_size
               /\ f_locals[1].value = Composite(kind, n, "plain")) =>
                LET node == capture.local_variables[1]
                IN  /\ node.name = <<"x">>
                    /\ Len(node.children) + Len(node.array_elements)
                         = max_collection_size
                    /\ node.is_truncated
                    /\ kind \in {"list", "tuple", "set"}
                         => node.array_length = n


\* the length of a text or byte-string value in the unit of its captured
\* form: characters, and hexadecimal digits for bytes
OriginalLength(v) ==
    IF v.kind = "bytes" THEN 2 * Len(v.text) ELSE Len(v.text)

\* C23: the captured text of a str or bytes value is at most
\* max_string_length long (hexadecimal digits for bytes) and is_truncated is
\* set exactly when the original was longer than that, in the exception
\* capture and in the breakpoint snapshot.
C23_TextBounded ==
    (capture.by # "none" /\ f_locals[1].value.kind \in {"str", "bytes"}) =>
        LET node == capture.local_variables[1]
        IN  /\ node.name = <<"x">>
            /\ Len(node.value) <= max_string_length
            /\ node.is_truncated
                 <=> OriginalLength(f_locals[1].value) > max_string_length


\* every node of a locals snapshot below an object node
ObjectChildren ==
    UNION {{[parent |-> n.node, child |-> n.node.children[i]] :
              i \in DOMAIN n.node.children} :
           n \in {m \in SnapshotNodes : m.node.type = "Obj"}}

\* C24: in a locals snapshot of an exception capture or of a breakpoint hit
\* no node at any level has a name that begins with '_', and no child of an
\* object node holds a callable.
C24_NoPrivateNoCallable ==
    /\ \A n \in SnapshotNodes : ~StartsWithUnderscore(n.node.name)
    /\ \A oc \in ObjectChildren : oc.child.type # "function"


\* the captured node of the local with this name, if there is one
HasLocal(name) ==
    \E i \in DOMAIN capture.local_variables :
        capture.local_variables[i].name = name

\* C25: when the second member of a container held by the local x cannot be
\* read (its len() raises, or producing it raises), the capture does not
\* fail: x is still captured with its other members, and the other locals of
\* the frame are captured too.
C25_HostileValueContained ==
    capture.by # "none" =>
        /\ HasLocal(<<"y">>)
        /\ \A kind \in CompositeKinds, n \in 2..MaxWidth,
              pat \in {"hostile", "raising"} :
              (f_locals[1].value = Composite(kind, n, pat)
                 /\ n <= max_collection_size
                 /\ (capture.by = "builder" \/ kind \in {"list", "tuple", "dict"}))
                => /\ HasLocal(<<"x">>)
                   /\ LET node == capture.local_variables[1]
                      IN  Len(node.children) + Len(node.array_elements)
                            >= n - 1


(* ========== stack trace and fingerprint of a capture (SpecStack) ======= *)
MaxShortChain == 7
LongChains == {MaxStackFrames - 1, MaxStackFrames, MaxStackFrames + 1,
               MaxStackFrames + 2}

\* Which steps of a chain are native (co_filename begins with '<'):
\* none, the odd ones, the even ones, the first six, all
NativePatterns == {"none", "odd", "even", "head", "all"}
IsNativeAt(pat, i) ==
    CASE pat = "none" -> FALSE
      [] pat = "odd" -> i % 2 = 1
      [] pat = "even" -> i % 2 = 0
      [] pat = "head" -> i <= MaxFingerprintFrames + 1
      [] pat = "all" -> TRUE

\* a chain of n steps; step i is at line i of f or g, the raising step (the
\* last one) may have no line number
Chain(n, pat, lined) ==
    [i \in 1..n |->
       TracebackStep(IF i % 3 = 0 THEN "g" ELSE "f",
                     IF i = n /\ ~lined THEN NoLine ELSE i,
                     IsNativeAt(pat, i))]

ExceptionInputs ==
    {[type |-> t, message |-> m, traceback |-> Chain(n, pat, lined)] :
       t \in {"KeyError", "ValueError"}, m \in {"b", "c"},
       n \in (0..MaxShortChain) \cup LongChains, pat \in NativePatterns,
       lined \in BOOLEAN}

InitStack ==
    /\ InitConnection
    /\ Preloaded(0, {App1})
    /\ frameBudget = 0
    /\ logWire = TRUE
    /\ okBudget = 0
    /\ failBudget = 0
    /\ TraceManagerIdle
    /\ AgentIdle
    /\ FacadeIdle
    /\ TraceHookIdle
    /\ max_capture_depth = DefaultMaxCaptureDepth
    /\ max_string_length = DefaultMaxStringLength
    /\ max_collection_size = DefaultMaxCollectionSize
    /\ exception \in ExceptionInputs
    /\ f_locals \in {FrameLocals(IntV), FrameLocals(StrV(1))}
    /\ capture = NoCapture

NextStack == BuilderCapture

SpecStack == InitStack /\ [][NextStack]_vars

\* C26: the stack trace of a capture has at most 50 frames and begins with
\* the frame in which the failure was raised (the last step of the
\* traceback chain), also when the chain is longer than 50.
C26_InnermostFirst ==
    (capture.by = "builder" /\ exception.traceback # <<>>) =>
        /\ Len(capture.stack_trace) <= MaxStackFrames
        /\ capture.stack_trace[1] = Last(exception.traceback)


\* what the fingerprint may depend on: the type name and the method name and
\* line number of the first five frames of the stack trace that are not
\* native
FingerprintKey(c) ==
    LET own == SelectSeq(c.stack_trace, LAMBDA f : ~f.is_native)
        first == Take(own, MaxFingerprintFrames)
    IN  [exception_type |-> c.exception_type,
         frames |-> [i \in DOMAIN first |->
                       [method_name |-> first[i].method_name,
                        line_number |-> LineOrZero(first[i].line_number)]]]

\* C27: a capture and any other capture (another failure, other locals) that
\* agree on the exception type and on the first up to five non-native frames
\* have the same fingerprint, whatever their messages, locals, native frames
\* and further frames.
C27_FingerprintDependsOnKeyOnly ==
    capture.by = "builder" =>
        \A other \in ExceptionInputs :
            LET c2 == BuildCapture(other, FrameLocals(StrV(2)))
            IN  FingerprintKey(c2) = FingerprintKey(capture)
                  => c2.fingerprint = capture.fingerprint

\* a capture of 50 frames with native frames among them, and another failure
\* with another message, other locals and another stack trace that has the
\* same key
C27_Witness ==
    /\ capture.by = "builder"
    /\ Len(capture.stack_trace) = MaxStackFrames
    /\ \E f \in Range(capture.stack_trace) : f.is_native
    /\ \E other \in ExceptionInputs :
         LET c2 == BuildCapture(other, FrameLocals(StrV(2)))
         IN  /\ other.message # exception.message
             /\ c2.stack_trace # capture.stack_trace
             /\ c2.local_variables # capture.local_variables
             /\ FingerprintKey(c2) = FingerprintKey(capture)


\* C29: a step of an application thread inside _send never writes to the
\* channel: whenever an application thread moves, the frames the channels
\* have accepted are unchanged (only the transport workers write).
C29_SendOnlyEnqueues ==
    [][\A t \in DOMAIN threads :
          (IsApp(t) /\ threads'[t] # threads[t]) => wire' = wire]_vars


\* C30: a _send call that found the offline queue full discards the frame at
\* the head of the queue, and when it returns its own frame is the newest
\* frame of the queue, whatever the other senders and the worker do meanwhile.
C30_DropOldestKeepsNewest ==
    [][\A t \in DOMAIN threads :
          /\ (threads[t].pc = "drop" /\ threads'[t].pc = "put_again")
               => (/\ ~QueueEmpty(message_queue)
                   /\ message_queue' = Tail(message_queue))
          /\ (threads[t].pc = "put_again" /\ threads'[t].pc # "put_again")
               => (/\ ~QueueEmpty(message_queue')
                   /\ Last(message_queue') = threads[t].msg)]_vars


(* ------------------- init() and shutdown() of the package -------------- *)
MaxCallsFacade == 3

\* the package is imported, init() is not called yet; the environment is any
\* of the modelled ones and stays as it is
InitFacade ==
    /\ InitConnection
    /\ Preloaded(0, {App1})
    /\ frameBudget = 0
    /\ logWire = TRUE
    /\ okBudget = MaxCallsFacade + 1
    /\ failBudget = 0
    /\ TraceManagerIdle
    /\ CaptureIdle
    /\ launched = 0
    /\ environ \in Environs
    /\ initialized = FALSE
    /\ init_result = "none"
    /\ TraceHookIdle
    /\ InitExceptionHandler
    /\ started = FALSE
    /\ enable_breakpoints \in BOOLEAN
    /\ sampling_rate = 100
    /\ callBudget = MaxCallsFacade

\* init() and shutdown() called in any order on the main thread, uncaught
\* failures of the application, the worker and its heartbeat workers
NextFacade ==
    \/ ModuleInit
    \/ ModuleShutdown
    \/ \E fail \in Failures, draw \in Draws : Excepthook(fail, draw)
    \/ WorkerOfAgent
    \/ \E h \in DOMAIN threads : IsHb(h) /\ HeartbeatLoop(h)

SpecFacade == InitFacade /\ [][NextFacade]_vars

\* the configuration init() would build is in error
ConfigError(env) == env.api_key = "unset" \/ ConfigRaises(env)

\* C28: with a missing api key or an unparseable numeric option, init never
\* raises into the caller and leaves the agent uninitialized, with no hook
\* installed and no worker started.
C28_ConfigErrorRefusesQuietly ==
    ConfigError(environ) =>
        /\ init_result # "raised"
        /\ ~initialized
        /\ ~installed
        /\ launched = 0


(* ===================== the two breakpoint indexes ====================== *)
\* the positions (key, place) of self._breakpoints_by_file
Listings(byfile) ==
    {<<k, j>> \in (1..Len(byfile)) \X (1..Len(heap)) :
        j <= Len(byfile[k].bps)}

\* C31: the objects listed in _breakpoints_by_file are exactly the values of
\* _breakpoints, each listed once, under its own normalized_path.
C31_IndexesAgree ==
    LET at == Listings(breakpoints_by_file)
        ref(p) == breakpoints_by_file[p[1]].bps[p[2]]
    IN  /\ {ref(p) : p \in at} = {breakpoints[id] : id \in BreakpointIds} \ {0}
        /\ \A p, q \in at : ref(p) = ref(q) => p = q
        /\ \A p \in at :
             heap[ref(p)].normalized_path = breakpoints_by_file[p[1]].path


(* ======================== the heartbeat workers ======================== *)
\* the heartbeat threads that have not left _heartbeat_loop
LiveHeartbeats ==
    {h \in DOMAIN threads : IsHb(h) /\ threads[h].pc # "exited"}

\* C39: at most one heartbeat worker is alive at any time.
C39_OneHeartbeatWorker == Cardinality(LiveHeartbeats) <= 1


(* ================== frames on the channel and in the queue ============= *)
\* C37: no frame submitted through _send is accepted by the channels twice.
C37_WrittenAtMostOnce ==
    \A i, j \in 1..Len(wire) :
        (i < j /\ wire[i].f.src # WorkerId) => wire[i].f # wire[j].f


\* the step appended frame f to what the channels have accepted
Written(f) == Len(wire') = Len(wire) + 1 /\ Last(wire').f = f

\* C38: when the send of a frame taken out of the offline queue by a flush
\* (of the worker or of a _send call) has ended, the frame was accepted by
\* the channel or is in the queue again.
C38_FlushLosesNothing ==
    [][/\ (wpc = "flush_send" /\ wpc' # "flush_send")
            => (Written(wheld) \/ wheld \in Range(message_queue'))
       /\ \A t \in DOMAIN threads :
            (threads[t].pc = "flush_send" /\ threads'[t].pc # "flush_send")
              => (Written(threads[t].held)
                    \/ threads[t].held \in Range(message_queue'))]_vars


(* ============ the two capture engines compared (SpecCapture) =========== *)
\* C36: the snapshot the breakpoint engine takes of a frame's locals is the
\* tree the exception capture engine produces for the same locals.
C36_TracerFollowsBuilder ==
    capture.by = "tracer" =>
        capture.local_variables = CaptureLocalVariables("builder", f_locals, <<>>)


(* ======================= inbound frames ignored ======================== *)
\* the inbound frames the agent has nothing to do with
Ignored == {Unhandled, Undecodable, [type |-> "error", code |-> "rate_limited"]}

\* C35: a frame of unknown type, an error frame whose code is not an
\* authentication failure, and data that cannot be decoded leave the
\* connection state, the retry counter and its limit, the offline queue and
\* the breakpoint registry unchanged, and the worker stays in its receive
\* loop.
C35_IgnoredFramesChangeNothing ==
    [][\A m \in Ignored :
          WorkerRecvMessage(m) =>
            /\ UNCHANGED <<connected, authenticated, shutdown, ws, open,
                           reconnect_attempts, max_reconnect_attempts,
                           message_queue, breakpoints, breakpoints_by_file,
                           heap>>
            /\ wpc' = "recv"]_vars

\* the worker has printed an error that is no authentication failure and is
\* in its receive loop, registered
C35_Witness ==
    /\ errlog = "rate_limited"
    /\ wpc = "recv"
    /\ is_connected


(* ================= termination after disconnect (SpecShutdown) ========= *)
MaxFramesShutdown == 1
MaxConnsShutdown == 2
MaxFailsShutdown == 1

InitShutdown ==
    /\ InitConnection
    /\ Preloaded(0, {App1})
    /\ frameBudget = MaxFramesShutdown
    /\ logWire = FALSE
    /\ AgentIdle
    /\ CaptureIdle
    /\ FacadeIdle
    /\ TraceHookIdle
    /\ okBudget = MaxConnsShutdown
    /\ failBudget = MaxFailsShutdown
    /\ TraceManagerIdle

\* the steps of the connection worker
WorkerSteps == WorkerConnection \/ WorkerConnectFail \/ WorkerFlushSend

\* the steps of the heartbeat workers, inside _heartbeat_loop and _send
HeartbeatSteps ==
    \E h \in DOMAIN threads :
        IsHb(h) /\ (HeartbeatLoop(h) \/ Sender(h) \/ SenderOverflow(h))

\* The threads that can take a step eventually take one: the waits of the
\* workers are bounded (wait(delay), wait(30.0), recv(timeout=1.0)) and the
\* thread that called disconnect() goes on to close the channel.
SpecShutdown ==
    /\ InitShutdown
    /\ [][Next]_vars
    /\ WF_vars(WorkerSteps)
    /\ WF_vars(HeartbeatSteps)
    /\ WF_vars(DisconnectClose)

MaxCommandsRace == 3
MaxLineEventsRace == 2

InitRace ==
    /\ InitConnection
    /\ Preloaded(0, {App1})
    /\ frameBudget = 0
    /\ logWire = TRUE
    /\ AgentIdle
    /\ CaptureIdle
    /\ FacadeIdle
    /\ TraceHookIdle
    /\ okBudget = 0
    /\ failBudget = 0
    /\ InitTraceManager
    /\ cmdBudget = MaxCommandsRace
    /\ lineBudget = MaxLineEventsRace

\* The main thread runs traced code: each event calls _trace_callback, whose
\* loop over the index is taken one turn at a time.  Between the turns the
\* transport worker handles set_breakpoint and remove_breakpoint commands.
NextRace ==
    \/ Enable
    \/ \E id \in BreakpointIds, path \in BreakpointPaths, line \in Lines :
           SetBreakpoint(id, path, line, "none", 1)
    \/ \E id \in BreakpointIds : RemoveBreakpoint(id)
    \/ \E event \in OtherEvents : CallbackOther(event)
    \/ \E path \in CodePaths, line \in Lines : CallbackBegin(path, line, "true")
    \/ CallbackNext

SpecRace == InitRace /\ [][NextRace]_vars

\* C32: no _trace_callback call ends with an exception, whatever commands the
\* worker handles meanwhile; and a call for an event other than `line` emits
\* nothing and changes nothing of the breakpoint engine.
C32_CallbackNeverRaises ==
    /\ [](cb_result # "raised")
    /\ [][\A event \in OtherEvents :
            CallbackOther(event)
              => UNCHANGED <<enabled, hooked, heap, breakpoints,
                             breakpoints_by_file, hits>>]_vars


(* ========== stop against inbound breakpoint commands (SpecStop) ======== *)
MaxCallsStop == 3
MaxCommandsStop == 1
\* a trace function of the application (a debugger, a coverage tool)
BootTraces == {NoTrace, "debugger"}

\* AIVoryAgent.__init__, lines 22-29, in a process whose main thread may
\* have a trace function already
InitStop ==
    /\ InitConnection
    /\ Preloaded(0, {App1})
    /\ frameBudget = 0
    /\ logWire = TRUE
    /\ okBudget = MaxCallsStop
    /\ failBudget = 0
    /\ InitTraceManager
    /\ cmdBudget = MaxCommandsStop
    /\ lineBudget = 0
    /\ CaptureIdle
    /\ FacadeIdle
    /\ CallsIdle
    /\ boot_trace \in BootTraces
    /\ sys_trace = boot_trace
    /\ original_trace = NoTrace
    /\ launched = 0
    /\ InitExceptionHandler
    /\ started = FALSE
    /\ enable_breakpoints \in BOOLEAN
    /\ sampling_rate = 100
    /\ callBudget = MaxCallsStop

\* start() and stop() on the main thread, stop taken one component at a
\* time; the worker, which also handles set_breakpoint frames
NextStop ==
    \/ spc = "idle" /\ AgentStart
    \/ CleanupDisable
    \/ CleanupFinish
    \/ WorkerOfAgent
    \/ \E id \in BreakpointIds, path \in BreakpointPaths, line \in Lines :
           WorkerSetBreakpoint(id, path, line)

SpecStop == InitStop /\ [][NextStop]_vars

\* C33: when a stop call that found the agent started returns, the main
\* thread has the trace function it had before enable and both breakpoint
\* indexes are empty.
C33_StopRestoresAndClears ==
    [][(spc = "cleanup" /\ spc' = "idle") =>
          /\ sys_trace' = boot_trace
          /\ breakpoints' = [id \in BreakpointIds |-> 0]
          /\ breakpoints_by_file' = <<>>]_vars


(* ============ start from a thread other than main (SpecOffMain) ======== *)
MaxCallsOffMain == 3

\* AIVoryAgent.__init__, lines 22-29; the application has one thread besides
\* the main thread
InitOffMain ==
    /\ InitConnection
    /\ Preloaded(0, {App1})
    /\ frameBudget = 0
    /\ logWire = TRUE
    /\ okBudget = MaxCallsOffMain
    /\ failBudget = 0
    /\ TraceManagerIdle
    /\ CaptureIdle
    /\ launched = 0
    /\ FacadeIdle
    /\ TraceHookIdle
    /\ InitExceptionHandler
    /\ started = FALSE
    /\ enable_breakpoints \in BOOLEAN
    /\ sampling_rate = 100
    /\ callBudget = MaxCallsOffMain

\* start() on the main thread or on another thread, stop(), the worker
NextOffMain ==
    \/ AgentStart
    \/ AgentStop
    \/ \E t \in OtherThreads : Spawn(t)
    \/ \E t \in OtherThreads : AgentStartOffMain(t)
    \/ WorkerOfAgent

SpecOffMain == InitOffMain /\ [][NextOffMain]_vars

\* C40: after a start that failed at the signal registration, a stop call
\* leaves no component active (exception hooks removed, trace engine
\* disabled, transport shut down), and a start call launches a worker only
\* when none was launched or the transport was shut down.
C40_FailedStartLeavesNothing ==
    /\ [](lastCall = "stop" =>
            ~installed /\ ~enabled /\ (launched > 0 => shutdown))
    /\ [][launched' > launched => (launched = 0 \/ shutdown)]_vars

====
